---- MODULE Spec2Model ----
(***************************************************************************)
(* Model of the dual-transport remote command runner:                      *)
(*   terminal_command_runner.py  (transport orchestrator, SSH executor)    *)
(*   serial_command_runner.py    (serial console session)                  *)
(*                                                                         *)
(* Text is modelled by what the code does with it: every transcript is a   *)
(* set (orchestrator) or a sequence (serial console) of text fragments,    *)
(* and every substring test / regex search of the code is a test on the    *)
(* fragments, with str.lower() modelled by Lower.                          *)
(***************************************************************************)
EXTENDS Integers, Sequences, FiniteSets, TLC

VARIABLES
    \* ---- terminal_command_runner.main ----
    transport,      \* cfg.transport
    opc,            \* position in main
    ssh_ok,         \* _try_run_commands_over_ssh result [0]
    exit_code,      \* _try_run_commands_over_ssh result [1]
    transcript,     \* _try_run_commands_over_ssh result [2], as a set of fragments
    ssh_timeout,    \* local ssh_timeout of main
    rc,             \* serial subprocess return code
    out,            \* serial subprocess stdout, as a set of fragments
    err,            \* serial subprocess stderr, as a set of fragments
    final_rc,       \* value returned by main (-1: not returned yet)
    events,         \* calls made by main so far, in order
    ocfg,           \* cfg.overall_timeout, cfg.command_timeout of the orchestrator (ticks)
    subprocess_timeout, \* timeout main's last serial subprocess was launched with
    elapsed,        \* _now() - started_at of main, in ticks of 0.1 s
    \* ---- serial_command_runner: configuration (RunnerConfig, args) ----
    cfg,            \* device / username / password given?, timeouts (ticks), candidates
    \* ---- the console behind the serial port (environment) ----
    devCfg,         \* kind of device, tty echo, latency class
    devMode,        \* what the console is waiting for
    devOut,         \* bytes the console has produced and the port has not yet delivered
    devTyped,       \* lines typed while a command runs, not yet read by the shell
    devFinished,    \* user commands the remote shell has run to completion
    \* ---- serial_command_runner: program state ----
    spc,            \* position in main / _probe_port / _wake_and_wait_for_console
    now,            \* time.monotonic(), in ticks of 0.1 s
    overall_deadline,
    deadline,       \* deadline of the function in progress
    attempt,        \* open attempt of the retry loop in progress
    sel_state,      \* selection.state
    ptrans,         \* _probe_port: transcript_parts
    silent_probes,
    login_attempts,
    wake_iter,      \* iteration of the initial wake loop
    tparts,         \* _wake_and_wait_for_console: transcript_parts, as a set of fragments
    ready,          \* result of _wake_and_wait_for_console
    ready_out,
    sync_ok,        \* result of _sync_marker
    sync_out,
    cmd_i,          \* index of the command in progress (1-based)
    cmd_ok,         \* result of the last _run_one_command
    cmd_out,
    sections,       \* "===== COMMAND i/N =====" lines printed
    ret,            \* value returned by serial main (-1: not returned yet)
    outcome,        \* which return statement of serial main was taken
    written,        \* what was written to the port: counts per kind of line
    \* ---- serial_command_runner: the ports and _select_device ----
    globbed,        \* glob.glob results: device numbers (in path order) as found
    consoles,       \* the console behind each device, by device number
    results,        \* state of the PortProbeResult of each candidate probed so far
    first_alive_no_shell, \* _select_device: device and transcript, or None
    selected,       \* selection.device as a device number (0: none, or a joined list)
    ports,          \* serial ports the process holds open
    last_open,      \* what the last serial.Serial(...) did
    opened,         \* devices opened so far, in order
    \* ---- _run_one_command: the completion markers ----
    wall,           \* time.time(), in fractions of a millisecond
    issued,         \* the markers made so far, in order, with the run that made each
    \* ---- _try_run_commands_over_ssh ----
    s_pc,           \* position in _try_run_commands_over_ssh
    s_now,          \* time.monotonic(), in ticks of 0.1 s
    s_overall_deadline,
    s_i,            \* index of the command in progress (1-based)
    s_remaining,    \* local `remaining` of the iteration in progress
    s_per_cmd_timeout,
    s_started,      \* `started` of _run_remote_command_interactive
    s_exit_code,    \* local exit_code
    s_transcript,   \* transcript lines, in order
    s_result,       \* (ok, exit code) returned
    s_statuses,     \* what the remote commands returned so far, in order
    \* ---- _terminate_serial_holders and the processes of the host ----
    h_pc,           \* position in _terminate_serial_holders
    h_tool,         \* which of lsof / fuser is installed
    h_devices,      \* len(_collect_serial_devices(cfg))
    h_d,            \* index of the device of the loop (1-based)
    h_procs,        \* the processes of the host: device held, owner, SIGTERM handling, state
    h_pids,         \* pids of the iteration in progress
    h_seen,         \* every pid enumerated so far
    h_lines,        \* lines of the cleanup text, in order
    h_now,          \* time.monotonic(), in ticks of 0.1 s
    \* ---- _run_remote_command_interactive and the remote end of the channel ----
    x_cfg,          \* the remote command, timeout_s, password given?
    x_pc,           \* position in the polling loop
    x_remote,       \* the remote command: running, waiting for a password, exited
    x_stream,       \* what the channel has received and recv() has not returned yet
    x_stdout,       \* stdout_chunks
    x_sent_password,
    x_sends,        \* how many times chan.send(password + "\n") has written
    x_closed,       \* chan.close() has been called
    x_now,          \* _now() - started, in ticks of 0.1 s
    x_status        \* status returned (-1: not returned yet)

orchVars == <<transport, opc, ssh_ok, exit_code, transcript, ssh_timeout,
              rc, out, err, final_rc, events, ocfg, subprocess_timeout,
              elapsed>>

serVars == <<cfg, devCfg, devMode, devOut, devTyped, devFinished, spc, now,
             overall_deadline, deadline, attempt, sel_state, ptrans, silent_probes,
             login_attempts, wake_iter, tparts, ready, ready_out, sync_ok, sync_out,
             cmd_i, cmd_ok, cmd_out, sections, ret, outcome, written,
             globbed, consoles, results, first_alive_no_shell, selected, ports,
             last_open, opened>>

\* the part of serVars that only device selection and the opening of ports change
selVars == <<globbed, consoles, results, first_alive_no_shell, selected, ports,
             last_open, opened>>

markVars == <<wall, issued>>

sshVars == <<s_pc, s_now, s_overall_deadline, s_i, s_remaining, s_per_cmd_timeout,
             s_started, s_exit_code, s_transcript, s_result, s_statuses>>

holdVars == <<h_pc, h_tool, h_devices, h_d, h_procs, h_pids, h_seen, h_lines, h_now>>

execVars == <<x_cfg, x_pc, x_remote, x_stream, x_stdout, x_sent_password, x_sends,
              x_closed, x_now, x_status>>

vars == <<orchVars, serVars, markVars, sshVars, holdVars, execVars>>

-----------------------------------------------------------------------------
(* Program constants of terminal_command_runner.py *)

NO_SERIAL_CONNECTION_EXIT_CODE == 12
ALIVE_NO_LINUX_SHELL_EXIT_CODE == 13
SSH_FAILED_EXIT_CODE == 255
SUBPROCESS_TIMEOUT_EXIT_CODE == 124

NotReturned == 0 - 1

-----------------------------------------------------------------------------
(* Text fragments and str.lower() *)

Lower(p) ==
    CASE p = "AuthenticationException" -> "authenticationexception"
      [] p = "Authentication failed"   -> "authentication failed"
      [] p = "Permission denied"       -> "permission denied"
      [] p = "TimeoutError"            -> "timeouterror"
      [] p = "Timed out"               -> "timed out"
      [] p = "ERROR: no terminal"      -> "no terminal"
      [] p = "No serial devices found" -> "no serial devices found"
      [] p = "Could not auto-detect a responding serial console"
                                       -> "could not auto-detect a responding serial console"
      [] OTHER -> p

LowerText(text) == { Lower(p) : p \in text }

\* `needle in text` (case-sensitive substring test)
Contains(text, needle) == needle \in text

\* `needle in text.lower()`
ContainsLower(text, needle) == needle \in LowerText(text)

\* f"{out}\n{err}".lower()
Combined(o, e) == LowerText(o \cup e)

-----------------------------------------------------------------------------
(* Classifiers of terminal_command_runner.py *)

IsNoSerialConnectionResult(r, o, e) ==
    \/ r = NO_SERIAL_CONNECTION_EXIT_CODE
    \/ "no serial connection" \in Combined(o, e)
    \/ "connection appears inactive" \in Combined(o, e)
    \/ "no terminal" \in Combined(o, e)

IsSerialAliveNoLinuxShellResult(r, o, e) ==
    \/ r = ALIVE_NO_LINUX_SHELL_EXIT_CODE
    \/ "serial is alive, but no linux shell" \in Combined(o, e)

SerialUnavailableSignals ==
    { "no serial devices found",
      "could not auto-detect a responding serial console",
      "could not open port",
      "permission denied",
      "serial error" }

IsSerialUnavailableResult(o, e) ==
    \E token \in SerialUnavailableSignals : token \in Combined(o, e)

SshAuthSignals ==
    { "authenticationexception", "authentication failed", "auth failed",
      "bad authentication", "permission denied" }

SshAuthSignalsNoPhrase == SshAuthSignals \ { "authentication failed" }

MutIsSshAuthFailure(t) ==
    \E token \in SshAuthSignalsNoPhrase : ContainsLower(t, token)

IsSshAuthFailure(t) ==
    \E token \in SshAuthSignals : ContainsLower(t, token)

SshTimeoutDetected(t) ==
    Contains(t, "TimeoutError") \/ ContainsLower(t, "timed out")

-----------------------------------------------------------------------------
(* Results the two transports can hand to main *)

Transports == { "auto", "ssh", "serial" }

\* Fragments a failed client.connect() can put into the transcript line
\* "[terminal-runner] SSH connect failed: <type>: <msg>".
SshFailFragments ==
    { "AuthenticationException", "Authentication failed",
      "TimeoutError", "Timed out", "Connection refused" }

\* _try_run_commands_over_ssh: (ok, exit code, transcript)
SshOutcomes ==
    { [ok |-> FALSE, code |-> SSH_FAILED_EXIT_CODE,
       text |-> {"SSH connect failed"} \cup f] : f \in SUBSET SshFailFragments }
    \cup { [ok |-> FALSE, code |-> SSH_FAILED_EXIT_CODE,
            text |-> {"paramiko not available"}] }
    \cup { [ok |-> TRUE, code |-> c, text |-> {"===== COMMAND"}] :
              c \in {0, 1, 5, SUBPROCESS_TIMEOUT_EXIT_CODE} }

\* What serial_command_runner.py (run through _run) returns: (rc, stdout, stderr).
SerialOutcomes ==
    { [rc |-> 0, out |-> {"===== COMMAND", "done"}, err |-> {}],
      [rc |-> 12, out |-> {}, err |-> {"ERROR: no terminal", "No serial devices found"}],
      [rc |-> 12, out |-> {},
       err |-> {"ERROR: no terminal", "Could not auto-detect a responding serial console"}],
      [rc |-> 12, out |-> {"connection appears inactive"}, err |-> {"ERROR: no terminal"}],
      [rc |-> 13, out |-> {"device text"},
       err |-> {"ERROR: serial is alive, but no linux shell"}],
      [rc |-> 4, out |-> {"device text"},
       err |-> {"ERROR: failed to synchronize marker with prompt"}],
      [rc |-> 5, out |-> {"===== COMMAND"}, err |-> {"ERROR: overall timeout exceeded"}],
      [rc |-> 6, out |-> {"===== COMMAND"}, err |-> {"ERROR: command timed out"}],
      [rc |-> 6, out |-> {"===== COMMAND", "ERROR: no terminal"},
       err |-> {"ERROR: command timed out"}],
      [rc |-> 10, out |-> {}, err |-> {"serial error", "could not open port"}],
      [rc |-> 10, out |-> {}, err |-> {"serial error"}],
      [rc |-> 1, out |-> {}, err |-> {"Traceback"}],
      [rc |-> SUBPROCESS_TIMEOUT_EXIT_CODE, out |-> {},
       err |-> {"subprocess timed out"}] }

-----------------------------------------------------------------------------
(* serial_command_runner.py: constants.  Times are in ticks of 0.1 s.        *)

SERIAL_OPEN_RETRIES == 3
SERIAL_NO_OUTPUT_PROBE_WINDOW == 8
SERIAL_MAX_CONSECUTIVE_SILENT_PROBES == 2
WAKE_LOOPS == 2
MAX_LOGIN_ATTEMPTS == 2
WAKE_READ_WINDOW == 15
LOGIN_READ_WINDOW == 30
PASSWORD_READ_WINDOW == 40
MIN_SESSION_TIMEOUT == 50
MIN_COMMAND_BUDGET == 10
SCAN_TIMEOUT == 80
Inf == 1000000

EXIT_OK == 0
EXIT_NO_PROMPT == 3
EXIT_SYNC_FAILED == 4
EXIT_OVERALL_TIMEOUT == 5
EXIT_COMMAND_TIMEOUT == 6
EXIT_SERIAL_ERROR == 10

(* Bounds of the model *)

NumCommands == 2        \* len(args.command)
ShortOverall == 8       \* an --overall-timeout shorter than two probe windows
LongOverall == 70       \* an --overall-timeout longer than the wake deadline
CommandTimeout == 20    \* a positive --command-timeout
MaxPending == 2         \* bytes a slow console may still hold back after a read
MaxTime == 120          \* the model follows a run up to this time
MaxCandidates == 2      \* serial devices the scan globs can match
MaxConnect == 3         \* client.connect() takes up to this long

Min(a, b) == IF a < b THEN a ELSE b
Max(a, b) == IF a > b THEN a ELSE b

MutDeadlineFromTimeout(t, timeout_s) == t + timeout_s

\* _deadline_from_timeout
DeadlineFromTimeout(t, timeout_s) ==
    IF timeout_s <= 0 \/ timeout_s >= Inf THEN Inf ELSE t + timeout_s

\* deadline - _now(); float("inf") - t is float("inf")
TimeLeft(deadline_, t) == IF deadline_ >= Inf THEN Inf ELSE deadline_ - t

-----------------------------------------------------------------------------
(* Console text.  A fragment is <<kind, n>>:                                *)
(*   P  a line matching the caller's --prompt-regex (an idle shell prompt)  *)
(*   H  a line that has '@', ':' and '#'/'$' but matches no prompt regex    *)
(*   L  "login: " at the start of a line      W  "Password: " at line start *)
(*   N  any other text                        O  output of user command n   *)
(*   M  the line printed by `echo <marker n>` (n = 0: the ready marker)     *)
(*   E  the terminal's echo of the typed line "echo <marker n>"             *)
(*   U, C  the terminal's echo of a typed username / user command           *)
(*   S  the terminal's echo of the typed password                           *)
(* Echoed input continues the line it is typed on.                          *)

Tok(k) == <<k, 0>>
Kind(t) == t[1]
InlineEcho == { "U", "C", "E", "S" }

Range(q) == { q[i] : i \in 1..Len(q) }
Prefix(q, k) == SubSeq(q, 1, k)
Suffix(q, k) == SubSeq(q, k + 1, Len(q))

\* a '$'-anchored pattern stops matching a line once typed text is echoed after it
EndsLine(buf, i) == i = Len(buf) \/ Kind(buf[i + 1]) \notin InlineEcho

\* pat.search(buf) for the compiled patterns of the runner
Search(pat, buf) ==
    CASE pat = Tok("prompt")   -> \E i \in 1..Len(buf) : Kind(buf[i]) = "P" /\ EndsLine(buf, i)
      [] pat = Tok("fallback") -> \E i \in 1..Len(buf) : Kind(buf[i]) = "F"
      [] pat = Tok("login")    -> \E i \in 1..Len(buf) : Kind(buf[i]) = "L" /\ EndsLine(buf, i)
      [] pat = Tok("password") -> \E i \in 1..Len(buf) : Kind(buf[i]) = "W" /\ EndsLine(buf, i)
      [] OTHER -> \* re.escape(marker): the literal marker, wherever it stands
                  \E i \in 1..Len(buf) : Kind(buf[i]) \in {"M", "E"} /\ buf[i][2] = pat[2]

MarkerRe(n) == <<"marker", n>>

\* index of the first pattern that matches buf (0-based), -1 for None
FirstMatch(patterns, buf) ==
    IF \E j \in 1..Len(patterns) : Search(patterns[j], buf)
    THEN (CHOOSE j \in 1..Len(patterns) :
             /\ Search(patterns[j], buf)
             /\ \A h \in 1..(j - 1) : ~Search(patterns[h], buf)) - 1
    ELSE 0 - 1

MutLooksLikeShellPrompt(text) == FALSE

\* _looks_like_shell_prompt on the joined transcript
LooksLikeShellPrompt(text) == \E t \in text : Kind(t) \in {"P", "F", "H"}

\* _has_any_output
HasAnyOutput(text) == text # {}

-----------------------------------------------------------------------------
(* The console behind the port.  Lines written by the runner:               *)
(*   <<"nl",0>> empty line, <<"user",0>>, <<"pass",0>>,                     *)
(*   <<"echo",n>> "echo <marker n>", <<"cmd",n>> the n-th user command      *)

\* "askpass": a console that asks for a password on every line and whose
\* terminal echoes what is typed (a bootloader or firmware menu, not a getty)
DevKinds == { "silent", "noise", "fake", "login", "shell", "askpass" }

EchoOf(line) ==
    CASE line[1] = "echo" -> << <<"E", line[2]>> >>
      [] line[1] = "user" -> << Tok("U") >>
      [] line[1] = "cmd"  -> << Tok("C") >>
      [] OTHER -> <<>>

\* the echo of a terminal that has not switched echo off for the password
EchoAll(line) == IF line[1] = "pass" THEN << Tok("S") >> ELSE EchoOf(line)

RECURSIVE ShellRead(_, _)
\* an idle shell reads the typed lines q in order, until one starts a user command
ShellRead(q, acc) ==
    IF q = <<>> THEN [mode |-> "shell", out |-> acc, typed |-> <<>>]
    ELSE LET line == Head(q) IN
         CASE line[1] = "cmd"  -> [mode |-> "running", out |-> acc, typed |-> Tail(q)]
           [] line[1] = "echo" -> ShellRead(Tail(q), acc \o << <<"M", line[2]>>, Tok("P") >>)
           [] line[1] = "nl"   -> ShellRead(Tail(q), acc \o << Tok("P") >>)
           [] OTHER            -> ShellRead(Tail(q), acc \o << Tok("N"), Tok("P") >>)

\* what the console does with one line it receives
DevReceive(mode, echo, typed, line) ==
    LET e == IF echo THEN EchoOf(line) ELSE <<>> IN
    CASE mode = "silent" -> [mode |-> mode, out |-> <<>>, typed |-> typed]
      [] mode = "noise"  -> [mode |-> mode, out |-> << Tok("N") >>, typed |-> typed]
      [] mode = "fake"   -> [mode |-> mode, out |-> << Tok("H") >>, typed |-> typed]
      [] mode = "askpass" ->
            [mode |-> mode, out |-> EchoAll(line) \o << Tok("W") >>, typed |-> typed]
      [] mode = "login"  ->
            IF line[1] = "nl" THEN [mode |-> "login", out |-> << Tok("L") >>, typed |-> typed]
            ELSE IF line[1] = "user"
                 THEN [mode |-> "password", out |-> e \o << Tok("W") >>, typed |-> typed]
                 ELSE [mode |-> "login", out |-> << Tok("N"), Tok("L") >>, typed |-> typed]
      [] mode = "password" ->
            IF line[1] = "pass" THEN [mode |-> "shell", out |-> << Tok("P") >>, typed |-> typed]
            ELSE [mode |-> "login", out |-> << Tok("N"), Tok("L") >>, typed |-> typed]
      [] mode = "shell" -> ShellRead(<<line>>, e)
      [] OTHER -> \* "running": the terminal echoes, the shell reads the line later
            [mode |-> mode, out |-> e, typed |-> Append(typed, line)]

\* ser.write(payload); ser.flush()
WriteLine(line) ==
    LET r == DevReceive(devMode, devCfg.echo, devTyped, line) IN
    /\ devMode' = r.mode
    /\ devOut' = devOut \o r.out
    /\ devTyped' = r.typed
    /\ written' = [written EXCEPT ![line[1]] = @ + 1]

\* the running user command ends: its output, the prompt, then the typed-ahead lines
DevCmdFinish ==
    /\ devMode = "running"
    /\ ret = NotReturned
    /\ LET r == ShellRead(devTyped, << <<"O", devFinished + 1>>, Tok("P") >>) IN
          /\ devMode' = r.mode
          /\ devOut' = devOut \o r.out
          /\ devTyped' = r.typed
    /\ devFinished' = devFinished + 1
    /\ UNCHANGED <<cfg, devCfg, spc, now, overall_deadline, deadline, attempt, sel_state,
                   ptrans, silent_probes, login_attempts, wake_iter, tparts, ready,
                   ready_out, sync_ok, sync_out, cmd_i, cmd_ok, cmd_out, sections, ret,
                   outcome, written>>
    /\ UNCHANGED <<selVars, orchVars, markVars, sshVars, holdVars, execVars>>

\* How many pending fragments one read call may take: a prompt console delivers
\* all it has produced; a slow one may hold back up to MaxPending fragments.
Deliverable ==
    IF devCfg.timely THEN { Len(devOut) }
    ELSE { k \in 0..Len(devOut) : Len(devOut) - k <= MaxPending }

NoWrites == [k \in {"nl", "user", "pass", "echo", "cmd"} |-> 0]

-----------------------------------------------------------------------------
(* serial_command_runner.main: start-up and device selection                *)

OverallTimeouts == { 0, ShortOverall, LongOverall }
CommandTimeouts == { 0, CommandTimeout }

Configs ==
    { c \in [ device : BOOLEAN, candidates : 0..MaxCandidates, username : BOOLEAN,
              password : BOOLEAN, overall_timeout : OverallTimeouts,
              command_timeout : CommandTimeouts ] :
        c.device => c.candidates = 1 }

\* The console and its port.  A flaky port may refuse to open (serial.Serial
\* raises); the model pairs it with the consoles that answer least, and a slow
\* console with a terminal that does not echo.  A port that drops raises once it
\* is open, in a read or a write; the model pairs it with a shell console.
DevConfigs ==
    { d \in [ kind : DevKinds, echo : BOOLEAN, timely : BOOLEAN, flaky : BOOLEAN,
              drops : BOOLEAN ] :
        /\ d.kind = "silent" => d.timely
        /\ d.kind \in {"silent", "noise", "fake", "askpass"} => ~d.echo
        /\ ~d.timely => ~d.echo
        /\ d.flaky => d.kind \in {"silent", "noise"} /\ d.timely
        /\ d.drops => d.kind = "shell" /\ ~d.echo /\ ~d.flaky }

NoText == [text |-> {}, msg |-> "none"]

\* the consoles the model puts behind the ports when the scan finds several
PairConsoles ==
    { d \in DevConfigs : /\ d.kind \in { "silent", "noise", "shell" }
                         /\ d.timely /\ ~d.echo /\ ~d.flaky /\ ~d.drops }

\* glob.glob over the scan globs: the n devices, in any order
GlobResults(n) == { g \in [1..n -> 1..n] : \A d \in 1..n : \E i \in 1..n : g[i] = d }

MutSortedSet(g) == g

RECURSIVE SortedSeq(_)
SortedSeq(S) ==
    IF S = {} THEN <<>>
    ELSE LET least == CHOOSE x \in S : \A y \in S : x <= y
         IN <<least>> \o SortedSeq(S \ {least})

\* sorted(set(candidates))
SortedSet(g) == SortedSeq(Range(g))

\* _candidate_devices(cfg.scan_globs)
Candidates == SortedSet(globbed)

\* first_alive_no_shell = None
NoneAlive == [device |-> 0, transcript |-> <<>>]

\* the devices of the host and the consoles behind them
SelectionInputs ==
    /\ globbed \in GlobResults(cfg.candidates)
    /\ consoles \in IF cfg.candidates < 2 THEN { <<devCfg>> }
                     ELSE [1..cfg.candidates -> PairConsoles]
    /\ cfg.candidates >= 2 => devCfg = consoles[Candidates[1]]

SerialProgramInit ==
    /\ devOut = <<>>
    /\ devTyped = <<>>
    /\ devFinished = 0
    /\ spc = "start"
    /\ now = 0
    /\ overall_deadline = Inf
    /\ deadline = Inf
    /\ attempt = 1
    /\ sel_state = "unknown"
    /\ ptrans = <<>>
    /\ silent_probes = 0
    /\ login_attempts = 0
    /\ wake_iter = 0
    /\ tparts = {}
    /\ ready = FALSE
    /\ ready_out = NoText
    /\ sync_ok = FALSE
    /\ sync_out = <<>>
    /\ cmd_i = 0
    /\ cmd_ok = FALSE
    /\ cmd_out = <<>>
    /\ sections = 0
    /\ ret = NotReturned
    /\ outcome = "none"
    /\ written = NoWrites
    /\ results = <<>>
    /\ first_alive_no_shell = NoneAlive
    /\ selected = 0
    /\ ports = 0
    /\ last_open = "none"
    /\ opened = <<>>

\* cfg.overall_timeout and cfg.command_timeout of terminal_command_runner
RunnerConfigs == [ overall_timeout : OverallTimeouts, command_timeout : CommandTimeouts ]

\* subprocess.run(..., timeout=None)
None == [limited |-> FALSE, after |-> 0]

\* _try_run_commands_over_ssh is not part of the run
SshIdle ==
    /\ s_pc = "idle"
    /\ s_now = 0
    /\ s_overall_deadline = Inf
    /\ s_i = 0
    /\ s_remaining = 0
    /\ s_per_cmd_timeout = 0
    /\ s_started = 0
    /\ s_exit_code = 0
    /\ s_transcript = <<>>
    /\ s_result = [ok |-> FALSE, code |-> NotReturned]
    /\ s_statuses = <<>>

\* _terminate_serial_holders is not part of the run
HoldIdle ==
    /\ h_pc = "idle"
    /\ h_tool = "lsof"
    /\ h_devices = 0
    /\ h_d = 0
    /\ h_procs = <<>>
    /\ h_pids = {}
    /\ h_seen = {}
    /\ h_lines = <<>>
    /\ h_now = 0

\* _run_remote_command_interactive is not part of the run
ExecIdle ==
    /\ x_cfg = [kind |-> "plain", timeout_s |-> 0, password |-> FALSE]
    /\ x_pc = "idle"
    /\ x_remote = "exited"
    /\ x_stream = <<>>
    /\ x_stdout = <<>>
    /\ x_sent_password = FALSE
    /\ x_sends = 0
    /\ x_closed = FALSE
    /\ x_now = 0
    /\ x_status = 0 - 1

\* no marker is being made
MarkIdle ==
    /\ wall = 0
    /\ issued = <<>>

\* the serial runner is not part of the run
SerialIdle ==
    /\ cfg = [ device |-> TRUE, candidates |-> 1, username |-> TRUE, password |-> TRUE,
               overall_timeout |-> 0, command_timeout |-> 0 ]
    /\ devCfg = [ kind |-> "silent", echo |-> FALSE, timely |-> TRUE, flaky |-> FALSE,
                  drops |-> FALSE ]
    /\ devMode = "silent"
    /\ globbed = <<1>>
    /\ consoles = <<devCfg>>
    /\ SerialProgramInit

OrchProgramIdle ==
    /\ transport = "serial"
    /\ opc = "serial_run"
    /\ ssh_ok = FALSE
    /\ exit_code = 0
    /\ transcript = {}
    /\ ssh_timeout = FALSE
    /\ rc = 0
    /\ out = {}
    /\ err = {}
    /\ final_rc = NotReturned
    /\ events = <<>>
    /\ subprocess_timeout = None
    /\ elapsed = 0

\* main of terminal_command_runner is not part of the run
OrchIdle ==
    /\ OrchProgramIdle
    /\ ocfg = [overall_timeout |-> 0, command_timeout |-> 0]

\* a port that drops is followed for the runs that are given the device and the
\* credentials, and behind a slow console for the runs without timeouts
FollowedTogether(c, d) ==
    /\ d.drops => (c.device /\ c.username /\ c.password)
    /\ (d.drops /\ ~d.timely) => (c.overall_timeout = 0 /\ c.command_timeout = 0)

\* the runs in which the open port never raises
SerialInit ==
    /\ cfg \in Configs
    /\ devCfg \in DevConfigs
    /\ ~devCfg.drops
    /\ SelectionInputs
    /\ devMode = devCfg.kind
    /\ SerialProgramInit
    /\ OrchIdle
    /\ MarkIdle
    /\ SshIdle
    /\ HoldIdle
    /\ ExecIdle

Running == ret = NotReturned /\ now <= MaxTime

\* return <code> from main
Return(code, what) ==
    /\ ret' = code
    /\ outcome' = what
    /\ spc' = "done"

\* cfg.device given: PortProbeResult(state="unknown"); the session is opened next
SelectExplicit ==
    /\ Running /\ spc = "start"
    /\ cfg.device
    /\ overall_deadline' = DeadlineFromTimeout(now, cfg.overall_timeout)
    /\ sel_state' = "unknown"
    /\ attempt' = 1
    /\ spc' = "open"
    /\ UNCHANGED <<cfg, devCfg, devMode, devOut, devTyped, devFinished, now, deadline,
                   ptrans, silent_probes, login_attempts, wake_iter, tparts, ready,
                   ready_out, sync_ok, sync_out, cmd_i, cmd_ok, cmd_out, sections, ret,
                   outcome, written>>
    /\ selected' = 1
    /\ UNCHANGED <<globbed, consoles, results, first_alive_no_shell, ports, last_open, opened>>
    /\ UNCHANGED <<orchVars, markVars, sshVars, holdVars, execVars>>

\* no candidates: "No serial devices found" -> no_terminal
SelectNoCandidates ==
    /\ Running /\ spc = "start"
    /\ ~cfg.device /\ cfg.candidates = 0
    /\ overall_deadline' = DeadlineFromTimeout(now, cfg.overall_timeout)
    /\ sel_state' = "no_terminal"
    /\ Return(NO_SERIAL_CONNECTION_EXIT_CODE, "no_terminal")
    /\ UNCHANGED <<cfg, devCfg, devMode, devOut, devTyped, devFinished, now, deadline,
                   attempt, ptrans, silent_probes, login_attempts, wake_iter, tparts,
                   ready, ready_out, sync_ok, sync_out, cmd_i, cmd_ok, cmd_out,
                   sections, written>>
    /\ UNCHANGED <<selVars, orchVars, markVars, sshVars, holdVars, execVars>>

SelectProbe ==
    /\ Running /\ spc = "start"
    /\ ~cfg.device /\ cfg.candidates > 0
    /\ overall_deadline' = DeadlineFromTimeout(now, cfg.overall_timeout)
    /\ attempt' = 1
    /\ spc' = "p_open"
    /\ UNCHANGED <<cfg, devCfg, devMode, devOut, devTyped, devFinished, now, deadline,
                   sel_state, ptrans, silent_probes, login_attempts, wake_iter, tparts,
                   ready, ready_out, sync_ok, sync_out, cmd_i, cmd_ok, cmd_out,
                   sections, ret, outcome, written>>
    /\ UNCHANGED <<selVars, orchVars, markVars, sshVars, holdVars, execVars>>

-----------------------------------------------------------------------------
(* Opening the port: serial.Serial(...) and reset_input_buffer()            *)

SERIAL_OPEN_RETRY_DELAY == 6

\* what serial.Serial(...) can do: open, or raise a SerialException whose text is
\* one of SERIAL_RETRY_ERROR_SNIPPETS ("retryable") or is not ("fatal")
OpenResults == IF devCfg.flaky THEN { "ok", "retryable", "fatal" } ELSE { "ok" }

IsRetryableSerialError(r) == r = "retryable"

MutRetriesOpen(a, r) == a < SERIAL_OPEN_RETRIES

\* `attempt < SERIAL_OPEN_RETRIES and _is_retryable_serial_error(exc)`
RetriesOpen(a, r) == a < SERIAL_OPEN_RETRIES /\ IsRetryableSerialError(r)

\* reset_input_buffer(): what has arrived so far is dropped
ResetInputBuffer == \E k \in Deliverable : devOut' = Suffix(devOut, k)

-----------------------------------------------------------------------------
(* The two blocking reads                                                   *)

\* _probe_for_any_output(ser, deadline=dl): reads for one probe window, or not at
\* all when the window is already closed
ProbeWindowEnd(dl) == Min(dl, now + SERIAL_NO_OUTPUT_PROBE_WINDOW)
ProbeTakes(dl) == IF ProbeWindowEnd(dl) <= now THEN {0} ELSE Deliverable
ProbeEnds(dl) == IF ProbeWindowEnd(dl) <= now THEN now ELSE ProbeWindowEnd(dl)

\* _read_until_any(ser, patterns, dl): returns on the first read after which the
\* buffer matches, or at the deadline; with dl = inf it returns only on a match
ReadTakes(patterns, dl) ==
    IF now >= dl THEN {0}
    ELSE { k \in 0..Len(devOut) :
             \/ FirstMatch(patterns, Prefix(devOut, k)) # 0 - 1
             \/ dl < Inf /\ k \in Deliverable }
ReadEnds(idx, dl) ==
    IF now >= dl THEN {now}
    ELSE IF idx = 0 - 1 THEN {dl}
    ELSE IF devCfg.timely THEN {Min(now + 1, dl)}
    ELSE {Min(now + 1, dl), dl}

-----------------------------------------------------------------------------
(* _probe_port                                                              *)

\* the device being opened: the candidate of the scan's loop, or the selection
CurrentDevice == IF spc = "p_open" THEN Candidates[Len(results) + 1] ELSE selected

ProbeOpenOk ==
    /\ Running /\ spc = "p_open"
    /\ ResetInputBuffer
    /\ deadline' = now + SCAN_TIMEOUT
    /\ ptrans' = <<>>
    /\ spc' = "pA1_write"
    /\ UNCHANGED <<cfg, devCfg, devMode, devTyped, devFinished, now, overall_deadline,
                   attempt, sel_state, silent_probes, login_attempts, wake_iter,
                   tparts, ready, ready_out, sync_ok, sync_out, cmd_i, cmd_ok, cmd_out,
                   sections, ret, outcome, written>>
    /\ ports' = ports + 1
    /\ last_open' = "ok"
    /\ opened' = Append(opened, CurrentDevice)
    /\ UNCHANGED <<globbed, consoles, results, first_alive_no_shell, selected>>
    /\ UNCHANGED <<orchVars, markVars, sshVars, holdVars, execVars>>

ProbeOpenRetry ==
    /\ Running /\ spc = "p_open"
    /\ \E r \in OpenResults \ {"ok"} :
          /\ RetriesOpen(attempt, r)
          /\ attempt' = attempt + 1
          /\ now' = now + SERIAL_OPEN_RETRY_DELAY
          /\ last_open' = r
    /\ UNCHANGED <<cfg, devCfg, devMode, devOut, devTyped, devFinished, spc,
                   overall_deadline, deadline, sel_state, ptrans, silent_probes,
                   login_attempts, wake_iter, tparts, ready, ready_out, sync_ok,
                   sync_out, cmd_i, cmd_ok, cmd_out, sections, ret, outcome, written>>
    /\ UNCHANGED <<globbed, consoles, results, first_alive_no_shell, selected, ports, opened>>
    /\ UNCHANGED <<orchVars, markVars, sshVars, holdVars, execVars>>

\* PortProbeResult(transcript="serial error: ...", state="no_terminal")
ProbeOpenFail ==
    /\ Running /\ spc = "p_open"
    /\ \E r \in OpenResults \ {"ok"} : ~RetriesOpen(attempt, r) /\ last_open' = r
    /\ spc' = "p_result"
    /\ UNCHANGED <<cfg, devCfg, devMode, devOut, devTyped, devFinished, now,
                   overall_deadline, deadline, attempt, sel_state, ptrans, silent_probes,
                   login_attempts, wake_iter, tparts, ready, ready_out, sync_ok,
                   sync_out, cmd_i, cmd_ok, cmd_out, sections, ret, outcome, written>>
    /\ UNCHANGED <<globbed, consoles, results, first_alive_no_shell, selected, ports,
                   opened>>
    /\ UNCHANGED <<orchVars, markVars, sshVars, holdVars, execVars>>

PIsShell(pt) == LooksLikeShellPrompt(Range(pt))

PStepD(pt) ==
    IF ~PIsShell(pt) /\ Search(Tok("login"), pt) /\ cfg.username
    THEN "pD_write" ELSE "p_result"

PStepC(pt) ==
    IF ~PIsShell(pt) /\ Search(Tok("password"), pt) /\ cfg.password
    THEN "pC_write" ELSE PStepD(pt)

PStepB(pt) ==
    IF ~PIsShell(pt) /\ Search(Tok("login"), pt) /\ cfg.username
    THEN "pB_write" ELSE PStepC(pt)

PAfterA1(pt) == IF ~PIsShell(pt) THEN "pA2_write" ELSE PStepB(pt)

PAfterD(pt) ==
    IF Search(Tok("password"), pt) /\ cfg.password THEN "pD2_write" ELSE "p_result"

PDone(pt) == "p_result"

ProbeWrite(pos, line, next) ==
    /\ Running /\ spc = pos
    /\ WriteLine(line)
    /\ spc' = next
    /\ UNCHANGED <<cfg, devCfg, devFinished, now, overall_deadline, deadline, attempt,
                   sel_state, ptrans, silent_probes, login_attempts, wake_iter, tparts,
                   ready, ready_out, sync_ok, sync_out, cmd_i, cmd_ok, cmd_out,
                   sections, ret, outcome>>
    /\ UNCHANGED <<selVars, orchVars, markVars, sshVars, holdVars, execVars>>

\* where _probe_port goes after the probe that follows a write
ProbeNextStep(pos, pt) ==
    CASE pos = "pA1_read" -> PAfterA1(pt)
      [] pos = "pA2_read" -> PStepB(pt)
      [] pos = "pB_read"  -> PStepC(pt)
      [] pos = "pC_read"  -> PStepD(pt)
      [] pos = "pD_read"  -> PAfterD(pt)
      [] pos = "pD2_read" -> PDone(pt)

\* _probe_output() and the conditions that follow it
ProbeRead(pos) ==
    /\ Running /\ spc = pos
    /\ \E k \in ProbeTakes(deadline) :
          LET pt == ptrans \o Prefix(devOut, k) IN
          /\ devOut' = Suffix(devOut, k)
          /\ now' = ProbeEnds(deadline)
          /\ ptrans' = pt
          /\ spc' = ProbeNextStep(pos, pt)
    /\ UNCHANGED <<cfg, devCfg, devMode, devTyped, devFinished, overall_deadline,
                   deadline, attempt, sel_state, silent_probes, login_attempts,
                   wake_iter, tparts, ready, ready_out, sync_ok, sync_out, cmd_i,
                   cmd_ok, cmd_out, sections, ret, outcome, written>>
    /\ UNCHANGED <<selVars, orchVars, markVars, sshVars, holdVars, execVars>>

ProbeA1Write == ProbeWrite("pA1_write", Tok("nl"), "pA1_read")
ProbeA1Read == ProbeRead("pA1_read")
ProbeA2Write == ProbeWrite("pA2_write", Tok("nl"), "pA2_read")
ProbeA2Read == ProbeRead("pA2_read")
ProbeBWrite == ProbeWrite("pB_write", Tok("user"), "pB_read")
ProbeBRead == ProbeRead("pB_read")
ProbeCWrite == ProbeWrite("pC_write", Tok("pass"), "pC_read")
ProbeCRead == ProbeRead("pC_read")
ProbeDWrite == ProbeWrite("pD_write", Tok("user"), "pD_read")
ProbeDRead == ProbeRead("pD_read")
ProbeD2Write == ProbeWrite("pD2_write", Tok("pass"), "pD2_read")
ProbeD2Read == ProbeRead("pD2_read")

\* state of the PortProbeResult
ProbeState(pt) ==
    IF PIsShell(pt) THEN "shell"
    ELSE IF HasAnyOutput(Range(pt)) THEN "alive_no_shell" ELSE "no_terminal"

\* res of `res = _probe_port(cfg, dev)`: the probe of the open port, or the
\* no_terminal of a port that did not open
ProbeResult ==
    [ device |-> Candidates[Len(results) + 1],
      state |-> IF last_open = "ok" THEN ProbeState(ptrans) ELSE "no_terminal" ]

MutPortsAfterExit(n) == n

\* leaving `with _open_serial(...) as ser`
PortsAfterExit(n) == n - 1
ProbePortClosed == ports' = IF last_open = "ok" THEN PortsAfterExit(ports) ELSE ports

\* `if res.state == "alive_no_shell" and first_alive_no_shell is None`
FirstAliveAfter(res) ==
    IF res.state = "alive_no_shell" /\ first_alive_no_shell = NoneAlive
    THEN [device |-> res.device, transcript |-> ptrans]
    ELSE first_alive_no_shell

LastCandidate == Len(results) + 1 = Len(Candidates)

\* _probe_port returns shell: _select_device returns it and main opens the session
ProbeShell ==
    /\ Running /\ spc = "p_result"
    /\ ProbeResult.state = "shell"
    /\ results' = Append(results, ProbeResult)
    /\ selected' = ProbeResult.device
    /\ ProbePortClosed
    /\ sel_state' = "shell"
    /\ attempt' = 1
    /\ spc' = "open"
    /\ UNCHANGED <<cfg, devCfg, devMode, devOut, devTyped, devFinished, now,
                   overall_deadline, deadline, ptrans, silent_probes, login_attempts,
                   wake_iter, tparts, ready, ready_out, sync_ok, sync_out, cmd_i,
                   cmd_ok, cmd_out, sections, ret, outcome, written>>
    /\ UNCHANGED <<globbed, consoles, first_alive_no_shell, last_open, opened>>
    /\ UNCHANGED <<orchVars, markVars, sshVars, holdVars, execVars>>

\* no shell on this candidate: `for dev in candidates` goes on to the next port
ProbeNext ==
    /\ Running /\ spc = "p_result"
    /\ ProbeResult.state # "shell"
    /\ ~LastCandidate
    /\ results' = Append(results, ProbeResult)
    /\ first_alive_no_shell' = FirstAliveAfter(ProbeResult)
    /\ ProbePortClosed
    /\ LET next == consoles[Candidates[Len(results) + 2]] IN
          /\ devCfg' = next
          /\ devMode' = next.kind
    /\ devOut' = <<>>
    /\ devTyped' = <<>>
    /\ ptrans' = <<>>
    /\ attempt' = 1
    /\ spc' = "p_open"
    /\ UNCHANGED <<cfg, devFinished, now, overall_deadline, deadline, sel_state,
                   silent_probes, login_attempts, wake_iter, tparts, ready, ready_out,
                   sync_ok, sync_out, cmd_i, cmd_ok, cmd_out, sections, ret, outcome,
                   written>>
    /\ last_open' = "none"
    /\ UNCHANGED <<globbed, consoles, selected, opened>>
    /\ UNCHANGED <<orchVars, markVars, sshVars, holdVars, execVars>>

\* the loop ends without a shell and `first_alive_no_shell is not None`
ProbeAliveNoShell ==
    /\ Running /\ spc = "p_result"
    /\ ProbeResult.state # "shell"
    /\ LastCandidate
    /\ FirstAliveAfter(ProbeResult) # NoneAlive
    /\ results' = Append(results, ProbeResult)
    /\ first_alive_no_shell' = FirstAliveAfter(ProbeResult)
    /\ selected' = first_alive_no_shell'.device
    /\ ptrans' = first_alive_no_shell'.transcript
    /\ ProbePortClosed
    /\ sel_state' = "alive_no_shell"
    /\ Return(ALIVE_NO_LINUX_SHELL_EXIT_CODE, "alive_no_shell")
    /\ UNCHANGED <<cfg, devCfg, devMode, devOut, devTyped, devFinished, now,
                   overall_deadline, deadline, attempt, silent_probes,
                   login_attempts, wake_iter, tparts, ready, ready_out, sync_ok,
                   sync_out, cmd_i, cmd_ok, cmd_out, sections, written>>
    /\ UNCHANGED <<globbed, consoles, last_open, opened>>
    /\ UNCHANGED <<orchVars, markVars, sshVars, holdVars, execVars>>

\* "Could not auto-detect a responding serial console"
ProbeNoTerminal ==
    /\ Running /\ spc = "p_result"
    /\ ProbeResult.state # "shell"
    /\ LastCandidate
    /\ FirstAliveAfter(ProbeResult) = NoneAlive
    /\ results' = Append(results, ProbeResult)
    /\ ProbePortClosed
    /\ sel_state' = "no_terminal"
    /\ Return(NO_SERIAL_CONNECTION_EXIT_CODE, "no_terminal")
    /\ UNCHANGED <<cfg, devCfg, devMode, devOut, devTyped, devFinished, now,
                   overall_deadline, deadline, attempt, ptrans, silent_probes,
                   login_attempts, wake_iter, tparts, ready, ready_out, sync_ok,
                   sync_out, cmd_i, cmd_ok, cmd_out, sections, written>>
    /\ UNCHANGED <<globbed, consoles, first_alive_no_shell, selected, last_open,
                   opened>>
    /\ UNCHANGED <<orchVars, markVars, sshVars, holdVars, execVars>>

-----------------------------------------------------------------------------
(* main: the session's open-retry loop                                      *)

\* the deadline handed to _wake_and_wait_for_console
WakeDeadline ==
    IF cfg.command_timeout <= 0 THEN overall_deadline
    ELSE Min(overall_deadline, now + Max(MIN_SESSION_TIMEOUT, cfg.command_timeout))

SessionOpenOk ==
    /\ Running /\ spc = "open"
    /\ ResetInputBuffer
    /\ deadline' = WakeDeadline
    /\ tparts' = {}
    /\ silent_probes' = 0
    /\ login_attempts' = 0
    /\ wake_iter' = 0
    /\ spc' = "w_write"
    /\ UNCHANGED <<cfg, devCfg, devMode, devTyped, devFinished, now, overall_deadline,
                   attempt, sel_state, ptrans, ready, ready_out, sync_ok, sync_out,
                   cmd_i, cmd_ok, cmd_out, sections, ret, outcome, written>>
    /\ ports' = ports + 1
    /\ last_open' = "ok"
    /\ opened' = Append(opened, CurrentDevice)
    /\ UNCHANGED <<globbed, consoles, results, first_alive_no_shell, selected>>
    /\ UNCHANGED <<orchVars, markVars, sshVars, holdVars, execVars>>

SessionOpenRetry ==
    /\ Running /\ spc = "open"
    /\ \E r \in OpenResults \ {"ok"} :
          /\ RetriesOpen(attempt, r)
          /\ attempt' = attempt + 1
          /\ now' = now + SERIAL_OPEN_RETRY_DELAY
          /\ last_open' = r
    /\ UNCHANGED <<cfg, devCfg, devMode, devOut, devTyped, devFinished, spc,
                   overall_deadline, deadline, sel_state, ptrans, silent_probes,
                   login_attempts, wake_iter, tparts, ready, ready_out, sync_ok,
                   sync_out, cmd_i, cmd_ok, cmd_out, sections, ret, outcome, written>>
    /\ UNCHANGED <<globbed, consoles, results, first_alive_no_shell, selected, ports, opened>>
    /\ UNCHANGED <<orchVars, markVars, sshVars, holdVars, execVars>>

SessionOpenFail ==
    /\ Running /\ spc = "open"
    /\ \E r \in OpenResults \ {"ok"} : ~RetriesOpen(attempt, r) /\ last_open' = r
    /\ Return(EXIT_SERIAL_ERROR, "serial_error")
    /\ UNCHANGED <<cfg, devCfg, devMode, devOut, devTyped, devFinished, now,
                   overall_deadline, deadline, attempt, sel_state, ptrans,
                   silent_probes, login_attempts, wake_iter, tparts, ready, ready_out,
                   sync_ok, sync_out, cmd_i, cmd_ok, cmd_out, sections, written>>
    /\ UNCHANGED <<globbed, consoles, results, first_alive_no_shell, selected, ports, opened>>
    /\ UNCHANGED <<orchVars, markVars, sshVars, holdVars, execVars>>

-----------------------------------------------------------------------------
(* _wake_and_wait_for_console                                               *)

WakePatterns == << Tok("prompt"), Tok("fallback"), Tok("login"), Tok("password") >>
AfterUserPatterns == << Tok("prompt"), Tok("fallback"), Tok("password"), Tok("login") >>

\* return (r, "".join(transcript_parts) + message)
WakeReturn(r, text, msg) ==
    /\ ready' = r
    /\ ready_out' = [text |-> text, msg |-> msg]
    /\ spc' = "wake_done"

WakeGoto(pos) ==
    /\ spc' = pos
    /\ UNCHANGED <<ready, ready_out>>

\* _has_shell_now()
HasShellNow(text) == LooksLikeShellPrompt(text)

MutMarkProbeOutput(count, got) == 0

\* silent_probes after _mark_probe_output(got)
MarkProbeOutput(count, got) == IF got # <<>> THEN 0 ELSE count + 1

\* `silent_probes >= SERIAL_MAX_CONSECUTIVE_SILENT_PROBES`
SilenceCapReached(count) == count >= SERIAL_MAX_CONSECUTIVE_SILENT_PROBES

\* the initial wake loop: _write_line(ser, "")
WakeWrite ==
    /\ Running /\ spc = "w_write"
    /\ WriteLine(Tok("nl"))
    /\ spc' = "w_probe"
    /\ UNCHANGED <<cfg, devCfg, devFinished, now, overall_deadline, deadline, attempt,
                   sel_state, ptrans, silent_probes, login_attempts, wake_iter, tparts,
                   ready, ready_out, sync_ok, sync_out, cmd_i, cmd_ok, cmd_out,
                   sections, ret, outcome>>
    /\ UNCHANGED <<selVars, orchVars, markVars, sshVars, holdVars, execVars>>

\* ... then probe, mark, and the two checks
WakeProbe ==
    /\ Running /\ spc = "w_probe"
    /\ \E k \in ProbeTakes(deadline) :
          LET got == Prefix(devOut, k)
              text == tparts \cup Range(got)
              silent == MarkProbeOutput(silent_probes, got)
          IN
          /\ devOut' = Suffix(devOut, k)
          /\ now' = ProbeEnds(deadline)
          /\ tparts' = text
          /\ silent_probes' = silent
          /\ IF HasShellNow(text)
                THEN WakeReturn(TRUE, text, "none") /\ UNCHANGED wake_iter
             ELSE IF SilenceCapReached(silent)
                THEN WakeReturn(FALSE, text, "inactive") /\ UNCHANGED wake_iter
             ELSE IF wake_iter + 1 < WAKE_LOOPS
                THEN WakeGoto("w_write") /\ wake_iter' = wake_iter + 1
             ELSE WakeGoto("loop_top") /\ wake_iter' = wake_iter + 1
    /\ UNCHANGED <<cfg, devCfg, devMode, devTyped, devFinished, overall_deadline,
                   deadline, attempt, sel_state, ptrans, login_attempts, sync_ok,
                   sync_out, cmd_i, cmd_ok, cmd_out, sections, ret, outcome, written>>
    /\ UNCHANGED <<selVars, orchVars, markVars, sshVars, holdVars, execVars>>

\* `while _now() < deadline` is false: return False, transcript
WakeDeadlinePassed ==
    /\ Running /\ spc = "loop_top"
    /\ now >= deadline
    /\ WakeReturn(FALSE, tparts, "none")
    /\ UNCHANGED <<cfg, devCfg, devMode, devOut, devTyped, devFinished, now,
                   overall_deadline, deadline, attempt, sel_state, ptrans,
                   silent_probes, login_attempts, wake_iter, tparts, sync_ok, sync_out,
                   cmd_i, cmd_ok, cmd_out, sections, ret, outcome, written>>
    /\ UNCHANGED <<selVars, orchVars, markVars, sshVars, holdVars, execVars>>

MutWakeDispatch(idx, text) ==
    IF idx = 0 - 1 THEN WakeGoto("poke_write")
    ELSE IF idx \in {0, 1} THEN WakeReturn(TRUE, text, "none")
    ELSE IF idx = 2
         THEN IF ~cfg.username THEN WakeReturn(FALSE, text, "no_username")
              ELSE WakeGoto("user_write")
    ELSE IF ~cfg.password THEN WakeReturn(FALSE, text, "no_password")
         ELSE WakeGoto("pw_write")

\* what the loop does with the index returned by the first read of an iteration
WakeDispatch(idx, text) ==
    IF idx = 0 - 1 THEN WakeGoto("poke_write")
    ELSE IF idx \in {0, 1} THEN WakeReturn(TRUE, text, "none")
    ELSE IF idx = 2
         THEN IF ~cfg.username THEN WakeReturn(FALSE, text, "no_username")
              ELSE IF login_attempts >= MAX_LOGIN_ATTEMPTS
                   THEN WakeReturn(FALSE, text, "login_repeated")
              ELSE WakeGoto("user_write")
    ELSE IF ~cfg.password THEN WakeReturn(FALSE, text, "no_password")
         ELSE WakeGoto("pw_write")

\* one iteration of the loop, up to its first write
WakeLoopRead ==
    /\ Running /\ spc = "loop_top"
    /\ now < deadline
    /\ LET dl == Min(deadline, now + WAKE_READ_WINDOW) IN
       \E k \in ReadTakes(WakePatterns, dl) :
          LET buf == Prefix(devOut, k)
              idx == FirstMatch(WakePatterns, buf)
              text == tparts \cup Range(buf)
          IN
          /\ devOut' = Suffix(devOut, k)
          /\ now' \in ReadEnds(idx, dl)
          /\ tparts' = text
          /\ IF buf # <<>> /\ HasShellNow(text)
                THEN WakeReturn(TRUE, text, "none")
                ELSE WakeDispatch(idx, text)
    /\ UNCHANGED <<cfg, devCfg, devMode, devTyped, devFinished, overall_deadline,
                   deadline, attempt, sel_state, ptrans, silent_probes, login_attempts,
                   wake_iter, sync_ok, sync_out, cmd_i, cmd_ok, cmd_out, sections, ret,
                   outcome, written>>
    /\ UNCHANGED <<selVars, orchVars, markVars, sshVars, holdVars, execVars>>

\* idx is None: poke the console
PokeWrite ==
    /\ Running /\ spc = "poke_write"
    /\ WriteLine(Tok("nl"))
    /\ spc' = "poke_probe"
    /\ UNCHANGED <<cfg, devCfg, devFinished, now, overall_deadline, deadline, attempt,
                   sel_state, ptrans, silent_probes, login_attempts, wake_iter, tparts,
                   ready, ready_out, sync_ok, sync_out, cmd_i, cmd_ok, cmd_out,
                   sections, ret, outcome>>
    /\ UNCHANGED <<selVars, orchVars, markVars, sshVars, holdVars, execVars>>

PokeProbe ==
    /\ Running /\ spc = "poke_probe"
    /\ \E k \in ProbeTakes(deadline) :
          LET got == Prefix(devOut, k)
              text == tparts \cup Range(got)
              silent == MarkProbeOutput(silent_probes, got)
          IN
          /\ devOut' = Suffix(devOut, k)
          /\ now' = ProbeEnds(deadline)
          /\ tparts' = text
          /\ silent_probes' = silent
          /\ IF HasShellNow(text) THEN WakeReturn(TRUE, text, "none")
             ELSE IF SilenceCapReached(silent) THEN WakeReturn(FALSE, text, "inactive")
             ELSE WakeGoto("loop_top")
    /\ UNCHANGED <<cfg, devCfg, devMode, devTyped, devFinished, overall_deadline,
                   deadline, attempt, sel_state, ptrans, login_attempts, wake_iter,
                   sync_ok, sync_out, cmd_i, cmd_ok, cmd_out, sections, ret, outcome,
                   written>>
    /\ UNCHANGED <<selVars, orchVars, markVars, sshVars, holdVars, execVars>>

\* idx == 2: send the username
UserWrite ==
    /\ Running /\ spc = "user_write"
    /\ login_attempts' = login_attempts + 1
    /\ WriteLine(Tok("user"))
    /\ spc' = "user_read"
    /\ UNCHANGED <<cfg, devCfg, devFinished, now, overall_deadline, deadline, attempt,
                   sel_state, ptrans, silent_probes, wake_iter, tparts, ready,
                   ready_out, sync_ok, sync_out, cmd_i, cmd_ok, cmd_out, sections, ret,
                   outcome>>
    /\ UNCHANGED <<selVars, orchVars, markVars, sshVars, holdVars, execVars>>

UserRead ==
    /\ Running /\ spc = "user_read"
    /\ LET dl == Min(deadline, now + LOGIN_READ_WINDOW) IN
       \E k \in ReadTakes(AfterUserPatterns, dl) :
          LET buf == Prefix(devOut, k)
              next_idx == FirstMatch(AfterUserPatterns, buf)
              text == tparts \cup Range(buf)
          IN
          /\ devOut' = Suffix(devOut, k)
          /\ now' \in ReadEnds(next_idx, dl)
          /\ tparts' = text
          /\ IF next_idx \in {0, 1} THEN WakeReturn(TRUE, text, "none")
             ELSE IF next_idx = 2
                  THEN IF ~cfg.password THEN WakeReturn(FALSE, text, "no_password")
                       ELSE WakeGoto("pw2_write")
             ELSE IF next_idx = 0 - 1 THEN WakeGoto("user_probe")
             ELSE WakeGoto("loop_top")
    /\ UNCHANGED <<cfg, devCfg, devMode, devTyped, devFinished, overall_deadline,
                   deadline, attempt, sel_state, ptrans, silent_probes, login_attempts,
                   wake_iter, sync_ok, sync_out, cmd_i, cmd_ok, cmd_out, sections, ret,
                   outcome, written>>
    /\ UNCHANGED <<selVars, orchVars, markVars, sshVars, holdVars, execVars>>

\* a probe whose silence fails the wake at once
ProbeOrFail(pos) ==
    /\ Running /\ spc = pos
    /\ \E k \in ProbeTakes(deadline) :
          LET got == Prefix(devOut, k)
              text == tparts \cup Range(got)
          IN
          /\ devOut' = Suffix(devOut, k)
          /\ now' = ProbeEnds(deadline)
          /\ tparts' = text
          /\ silent_probes' = MarkProbeOutput(silent_probes, got)
          /\ IF got = <<>> THEN WakeReturn(FALSE, text, "inactive")
             ELSE WakeGoto("loop_top")
    /\ UNCHANGED <<cfg, devCfg, devMode, devTyped, devFinished, overall_deadline,
                   deadline, attempt, sel_state, ptrans, login_attempts, wake_iter,
                   sync_ok, sync_out, cmd_i, cmd_ok, cmd_out, sections, ret, outcome,
                   written>>
    /\ UNCHANGED <<selVars, orchVars, markVars, sshVars, holdVars, execVars>>

\* next_idx is None
UserProbe == ProbeOrFail("user_probe")

\* next_idx == 2: send the password
PasswordAfterUserWrite ==
    /\ Running /\ spc = "pw2_write"
    /\ WriteLine(Tok("pass"))
    /\ spc' = "pw2_read"
    /\ UNCHANGED <<cfg, devCfg, devFinished, now, overall_deadline, deadline, attempt,
                   sel_state, ptrans, silent_probes, login_attempts, wake_iter, tparts,
                   ready, ready_out, sync_ok, sync_out, cmd_i, cmd_ok, cmd_out,
                   sections, ret, outcome>>
    /\ UNCHANGED <<selVars, orchVars, markVars, sshVars, holdVars, execVars>>

PasswordAfterUserRead ==
    /\ Running /\ spc = "pw2_read"
    /\ LET dl == Min(deadline, now + PASSWORD_READ_WINDOW) IN
       \E k \in ReadTakes(WakePatterns, dl) :
          LET buf == Prefix(devOut, k)
              final_idx == FirstMatch(WakePatterns, buf)
              text == tparts \cup Range(buf)
          IN
          /\ devOut' = Suffix(devOut, k)
          /\ now' \in ReadEnds(final_idx, dl)
          /\ tparts' = text
          /\ IF final_idx \in {0, 1} THEN WakeReturn(TRUE, text, "none")
             ELSE WakeGoto("loop_top")
    /\ UNCHANGED <<cfg, devCfg, devMode, devTyped, devFinished, overall_deadline,
                   deadline, attempt, sel_state, ptrans, silent_probes, login_attempts,
                   wake_iter, sync_ok, sync_out, cmd_i, cmd_ok, cmd_out, sections, ret,
                   outcome, written>>
    /\ UNCHANGED <<selVars, orchVars, markVars, sshVars, holdVars, execVars>>

\* idx == 3: a password prompt at the top of the loop
PasswordWrite ==
    /\ Running /\ spc = "pw_write"
    /\ WriteLine(Tok("pass"))
    /\ spc' = "pw_probe"
    /\ UNCHANGED <<cfg, devCfg, devFinished, now, overall_deadline, deadline, attempt,
                   sel_state, ptrans, silent_probes, login_attempts, wake_iter, tparts,
                   ready, ready_out, sync_ok, sync_out, cmd_i, cmd_ok, cmd_out,
                   sections, ret, outcome>>
    /\ UNCHANGED <<selVars, orchVars, markVars, sshVars, holdVars, execVars>>

PasswordProbe == ProbeOrFail("pw_probe")

-----------------------------------------------------------------------------
(* main: after the wake phase                                               *)

\* _is_no_serial_connection_output(ready_out)
IsNoSerialConnectionOutput(ro) == ro.msg = "inactive"

\* _has_any_output(ready_out)
ReadyOutHasOutput(ro) == HasAnyOutput(ro.text) \/ ro.msg # "none"

MutNotReadyExit(ro) == EXIT_NO_PROMPT

\* the exit code of a failed wake phase
NotReadyExit(ro) ==
    IF IsNoSerialConnectionOutput(ro) THEN NO_SERIAL_CONNECTION_EXIT_CODE
    ELSE IF ReadyOutHasOutput(ro) THEN ALIVE_NO_LINUX_SHELL_EXIT_CODE
    ELSE EXIT_NO_PROMPT

NotReadyOutcome(ro) ==
    IF IsNoSerialConnectionOutput(ro) THEN "no_terminal"
    ELSE IF ReadyOutHasOutput(ro) THEN "alive_no_shell"
    ELSE "no_prompt"

WakeFailed ==
    /\ Running /\ spc = "wake_done"
    /\ ~ready
    /\ Return(NotReadyExit(ready_out), NotReadyOutcome(ready_out))
    /\ UNCHANGED <<cfg, devCfg, devMode, devOut, devTyped, devFinished, now,
                   overall_deadline, deadline, attempt, sel_state, ptrans,
                   silent_probes, login_attempts, wake_iter, tparts, ready, ready_out,
                   sync_ok, sync_out, cmd_i, cmd_ok, cmd_out, sections, written>>
    /\ ports' = PortsAfterExit(ports)
    /\ UNCHANGED <<globbed, consoles, results, first_alive_no_shell, selected,
                   last_open, opened>>
    /\ UNCHANGED <<orchVars, markVars, sshVars, holdVars, execVars>>

\* the timeout handed to _sync_marker
SyncTimeout ==
    IF cfg.command_timeout <= 0 THEN MIN_SESSION_TIMEOUT
    ELSE Max(MIN_SESSION_TIMEOUT, cfg.command_timeout)

SyncPatterns == << MarkerRe(0), Tok("prompt") >>

\* _sync_marker: _write_line(ser, f"echo {marker}")
SyncWrite ==
    /\ Running /\ spc = "wake_done"
    /\ ready
    /\ deadline' = DeadlineFromTimeout(now, SyncTimeout)
    /\ WriteLine(<<"echo", 0>>)
    /\ spc' = "sync_read"
    /\ UNCHANGED <<cfg, devCfg, devFinished, now, overall_deadline, attempt, sel_state,
                   ptrans, silent_probes, login_attempts, wake_iter, tparts, ready,
                   ready_out, sync_ok, sync_out, cmd_i, cmd_ok, cmd_out, sections, ret,
                   outcome>>
    /\ UNCHANGED <<selVars, orchVars, markVars, sshVars, holdVars, execVars>>

MutSyncOk(idx) == idx # 0 - 1

\* `ok = idx == 0`
SyncOk(idx) == idx = 0

\* _sync_marker: the read, and main's `if not sync_ok: return 4`
SyncRead ==
    /\ Running /\ spc = "sync_read"
    /\ \E k \in ReadTakes(SyncPatterns, deadline) :
          LET buf == Prefix(devOut, k)
              idx == FirstMatch(SyncPatterns, buf)
          IN
          /\ devOut' = Suffix(devOut, k)
          /\ now' \in ReadEnds(idx, deadline)
          /\ sync_ok' = SyncOk(idx)
          /\ sync_out' = buf
          /\ IF SyncOk(idx)
                THEN /\ cmd_i' = 1
                     /\ spc' = "cmd_top"
                     /\ UNCHANGED <<ret, outcome>>
                ELSE /\ Return(EXIT_SYNC_FAILED, "sync_failed")
                     /\ UNCHANGED cmd_i
    /\ UNCHANGED <<cfg, devCfg, devMode, devTyped, devFinished, overall_deadline,
                   deadline, attempt, sel_state, ptrans, silent_probes, login_attempts,
                   wake_iter, tparts, ready, ready_out, cmd_ok, cmd_out, sections,
                   written>>
    /\ ports' = IF ret' # NotReturned THEN PortsAfterExit(ports) ELSE ports
    /\ UNCHANGED <<globbed, consoles, results, first_alive_no_shell, selected,
                   last_open, opened>>
    /\ UNCHANGED <<orchVars, markVars, sshVars, holdVars, execVars>>

-----------------------------------------------------------------------------
(* main: the command loop and _run_one_command                              *)

\* the command_timeout handed to _run_one_command
EffectiveCommandTimeout ==
    IF cfg.command_timeout <= 0 THEN Max(MIN_COMMAND_BUDGET, TimeLeft(overall_deadline, now))
    ELSE Min(cfg.command_timeout, Max(MIN_COMMAND_BUDGET, TimeLeft(overall_deadline, now)))

\* the for loop is exhausted: "[serial-runner] done"
CommandsDone ==
    /\ Running /\ spc = "cmd_top"
    /\ cmd_i > NumCommands
    /\ Return(EXIT_OK, "success")
    /\ UNCHANGED <<cfg, devCfg, devMode, devOut, devTyped, devFinished, now,
                   overall_deadline, deadline, attempt, sel_state, ptrans,
                   silent_probes, login_attempts, wake_iter, tparts, ready, ready_out,
                   sync_ok, sync_out, cmd_i, cmd_ok, cmd_out, sections, written>>
    /\ ports' = PortsAfterExit(ports)
    /\ UNCHANGED <<globbed, consoles, results, first_alive_no_shell, selected,
                   last_open, opened>>
    /\ UNCHANGED <<orchVars, markVars, sshVars, holdVars, execVars>>

\* `if _now() >= overall_deadline: return 5`
OverallTimeoutExceeded ==
    /\ Running /\ spc = "cmd_top"
    /\ cmd_i <= NumCommands
    /\ now >= overall_deadline
    /\ Return(EXIT_OVERALL_TIMEOUT, "overall_timeout")
    /\ UNCHANGED <<cfg, devCfg, devMode, devOut, devTyped, devFinished, now,
                   overall_deadline, deadline, attempt, sel_state, ptrans,
                   silent_probes, login_attempts, wake_iter, tparts, ready, ready_out,
                   sync_ok, sync_out, cmd_i, cmd_ok, cmd_out, sections, written>>
    /\ ports' = PortsAfterExit(ports)
    /\ UNCHANGED <<globbed, consoles, results, first_alive_no_shell, selected,
                   last_open, opened>>
    /\ UNCHANGED <<orchVars, markVars, sshVars, holdVars, execVars>>

\* print the section header; _run_one_command: marker, deadline, first write
CommandWrite ==
    /\ Running /\ spc = "cmd_top"
    /\ cmd_i <= NumCommands
    /\ now < overall_deadline
    /\ sections' = sections + 1
    /\ deadline' = DeadlineFromTimeout(now, EffectiveCommandTimeout)
    /\ WriteLine(<<"cmd", cmd_i>>)
    /\ spc' = "marker_write"
    /\ UNCHANGED <<cfg, devCfg, devFinished, now, overall_deadline, attempt, sel_state,
                   ptrans, silent_probes, login_attempts, wake_iter, tparts, ready,
                   ready_out, sync_ok, sync_out, cmd_i, cmd_ok, cmd_out, ret, outcome>>
    /\ UNCHANGED <<selVars, orchVars, markVars, sshVars, holdVars, execVars>>

\* _write_line(ser, f"echo {marker}")
MarkerWrite ==
    /\ Running /\ spc = "marker_write"
    /\ WriteLine(<<"echo", cmd_i>>)
    /\ spc' = "cmd_read"
    /\ UNCHANGED <<cfg, devCfg, devFinished, now, overall_deadline, deadline, attempt,
                   sel_state, ptrans, silent_probes, login_attempts, wake_iter, tparts,
                   ready, ready_out, sync_ok, sync_out, cmd_i, cmd_ok, cmd_out,
                   sections, ret, outcome>>
    /\ UNCHANGED <<selVars, orchVars, markVars, sshVars, holdVars, execVars>>

\* the pattern list _run_one_command reads for
CommandPatterns(n) == << MarkerRe(n) >>

\* `ok = idx == 0`, and main's `if not ok: return 6`
CommandRead ==
    /\ Running /\ spc = "cmd_read"
    /\ \E k \in ReadTakes(CommandPatterns(cmd_i), deadline) :
          LET buf == Prefix(devOut, k)
              idx == FirstMatch(CommandPatterns(cmd_i), buf)
          IN
          /\ devOut' = Suffix(devOut, k)
          /\ now' \in ReadEnds(idx, deadline)
          /\ cmd_ok' = (idx = 0)
          /\ cmd_out' = buf
          /\ IF idx = 0
                THEN /\ cmd_i' = cmd_i + 1
                     /\ spc' = "cmd_top"
                     /\ UNCHANGED <<ret, outcome>>
                ELSE /\ Return(EXIT_COMMAND_TIMEOUT, "command_timeout")
                     /\ UNCHANGED cmd_i
    /\ UNCHANGED <<cfg, devCfg, devMode, devTyped, devFinished, overall_deadline,
                   deadline, attempt, sel_state, ptrans, silent_probes, login_attempts,
                   wake_iter, tparts, ready, ready_out, sync_ok, sync_out, sections,
                   written>>
    /\ ports' = IF ret' # NotReturned THEN PortsAfterExit(ports) ELSE ports
    /\ UNCHANGED <<globbed, consoles, results, first_alive_no_shell, selected,
                   last_open, opened>>
    /\ UNCHANGED <<orchVars, markVars, sshVars, holdVars, execVars>>

-----------------------------------------------------------------------------
(* main: `except serial.SerialException` around the whole session           *)

\* the positions of _sync_marker and _run_one_command at which the port is read
\* or written
SessionIoPositions == { "sync_read", "marker_write", "cmd_read" }

\* a read or a write of the open port raises serial.SerialException: the handler
\* of the open-retry loop sleeps and re-opens, or prints the error and returns 10
SessionSerialError ==
    /\ Running /\ spc \in SessionIoPositions
    /\ devCfg.drops
    /\ \E r \in { "retryable", "fatal" } :
          IF RetriesOpen(attempt, r)
             THEN /\ attempt' = attempt + 1
                  /\ now' = now + SERIAL_OPEN_RETRY_DELAY
                  /\ spc' = "open"
                  /\ UNCHANGED <<ret, outcome>>
             ELSE /\ Return(EXIT_SERIAL_ERROR, "serial_error")
                  /\ UNCHANGED <<attempt, now>>
    /\ UNCHANGED <<cfg, devCfg, devMode, devOut, devTyped, devFinished,
                   overall_deadline, deadline, sel_state, ptrans, silent_probes,
                   login_attempts, wake_iter, tparts, ready, ready_out, sync_ok,
                   sync_out, cmd_i, cmd_ok, cmd_out, sections, written>>
    /\ ports' = PortsAfterExit(ports)
    /\ UNCHANGED <<globbed, consoles, results, first_alive_no_shell, selected,
                   last_open, opened>>
    /\ UNCHANGED <<orchVars, markVars, sshVars, holdVars, execVars>>

SerialNext ==
    \/ SelectExplicit
    \/ SelectNoCandidates
    \/ SelectProbe
    \/ ProbeOpenOk
    \/ ProbeOpenRetry
    \/ ProbeOpenFail
    \/ ProbeA1Write
    \/ ProbeA1Read
    \/ ProbeA2Write
    \/ ProbeA2Read
    \/ ProbeBWrite
    \/ ProbeBRead
    \/ ProbeCWrite
    \/ ProbeCRead
    \/ ProbeDWrite
    \/ ProbeDRead
    \/ ProbeD2Write
    \/ ProbeD2Read
    \/ ProbeShell
    \/ ProbeNext
    \/ ProbeAliveNoShell
    \/ ProbeNoTerminal
    \/ SessionOpenOk
    \/ SessionOpenRetry
    \/ SessionOpenFail
    \/ WakeWrite
    \/ WakeProbe
    \/ WakeDeadlinePassed
    \/ WakeLoopRead
    \/ PokeWrite
    \/ PokeProbe
    \/ UserWrite
    \/ UserRead
    \/ UserProbe
    \/ PasswordAfterUserWrite
    \/ PasswordAfterUserRead
    \/ PasswordWrite
    \/ PasswordProbe
    \/ WakeFailed
    \/ SyncWrite
    \/ SyncRead
    \/ CommandsDone
    \/ OverallTimeoutExceeded
    \/ CommandWrite
    \/ MarkerWrite
    \/ CommandRead
    \/ DevCmdFinish

SerialSpec == SerialInit /\ [][SerialNext]_vars

\* every run, those in which the open port raises included
SerialFaultInit ==
    /\ cfg \in Configs
    /\ devCfg \in DevConfigs
    /\ FollowedTogether(cfg, devCfg)
    /\ SelectionInputs
    /\ devMode = devCfg.kind
    /\ SerialProgramInit
    /\ OrchIdle
    /\ MarkIdle
    /\ SshIdle
    /\ HoldIdle
    /\ ExecIdle

SerialFaultNext ==
    \/ SerialNext
    \/ SessionSerialError

SerialFaultSpec == SerialFaultInit /\ [][SerialFaultNext]_vars

-----------------------------------------------------------------------------
(* _run_one_command: making the completion marker.  Runs of the runner, on  *)
(* the same device or not, read the same wall clock.                        *)

TicksPerMs == 4         \* clock readings told apart within one millisecond
MaxWall == 8            \* the model follows the clock up to this reading
MaxInvocations == 3     \* calls of _run_one_command followed
NumRuns == 2            \* runs of the runner (a retry, a concurrent run)

\* int(time.time() * 1000), the number inside "__COPILOT_DONE_<n>__"
MarkerOf(t) == t \div TicksPerMs

MarkerInit ==
    /\ MarkIdle
    /\ SerialIdle
    /\ OrchIdle
    /\ SshIdle
    /\ HoldIdle
    /\ ExecIdle

\* time passes
WallClockAdvance ==
    /\ wall < MaxWall
    /\ wall' = wall + 1
    /\ UNCHANGED <<issued, orchVars, serVars, sshVars, holdVars, execVars>>

\* time.time() is the system's wall clock: it can be set back
WallClockSetBack ==
    /\ \E t \in 0..(wall - 1) : wall' = t
    /\ UNCHANGED <<issued, orchVars, serVars, sshVars, holdVars, execVars>>

\* marker = f"__COPILOT_DONE_{int(time.time() * 1000)}__"
MakeMarker ==
    /\ Len(issued) < MaxInvocations
    /\ \E r \in 1..NumRuns :
          issued' = Append(issued, [run |-> r, marker |-> MarkerOf(wall)])
    /\ UNCHANGED <<wall, orchVars, serVars, sshVars, holdVars, execVars>>

MarkerNext ==
    \/ WallClockAdvance
    \/ WallClockSetBack
    \/ MakeMarker

MarkerSpec == MarkerInit /\ [][MarkerNext]_vars

-----------------------------------------------------------------------------
(* terminal_command_runner.main *)

OrchInit ==
    /\ transport \in Transports
    /\ opc = "start"
    /\ ssh_ok = FALSE
    /\ exit_code = 0
    /\ transcript = {}
    /\ ssh_timeout = FALSE
    /\ rc = 0
    /\ out = {}
    /\ err = {}
    /\ final_rc = NotReturned
    /\ events = <<>>
    /\ ocfg \in RunnerConfigs
    /\ subprocess_timeout = None
    /\ elapsed = 0
    /\ SerialIdle
    /\ MarkIdle
    /\ SshIdle
    /\ HoldIdle
    /\ ExecIdle

NoResult == [rc |-> NotReturned, out |-> {}, err |-> {}]

Event(c, r) == [call |-> c, res |-> r]

HOLDER_GRACE == 5           \* time.sleep(0.5)

\* _terminate_serial_holders(cfg), as main sees it: one completed cleanup pass
TerminateSerialHolders ==
    /\ events' = Append(events, Event("cleanup", NoResult))
    /\ \E d \in { 0, HOLDER_GRACE } : elapsed' = elapsed + d

SUBPROCESS_GRACE == 50

\* subprocess_timeout = None if cfg.overall_timeout <= 0 else (cfg.overall_timeout + 5.0)
SubprocessTimeout(overall_timeout) ==
    IF overall_timeout <= 0 THEN None
    ELSE [limited |-> TRUE, after |-> overall_timeout + SUBPROCESS_GRACE]

\* _run: subprocess.TimeoutExpired is raised only by a run that has a timeout
RunCanReturn(o, timeout) == ("subprocess timed out" \in o.err) => timeout.limited

\* how long the serial runner's process takes: it is killed when the timeout of
\* subprocess.run expires, and otherwise ends within its own overall timeout
SerialRunTimes(o, timeout) ==
    IF "subprocess timed out" \in o.err THEN { timeout.after }
    ELSE IF timeout.limited THEN { 1, timeout.after - SUBPROCESS_GRACE }
    ELSE { 1, LongOverall }

\* rc, out, err = _run_commands_over_serial_fallback(cfg, commands)
RunCommandsOverSerialFallback ==
    \E o \in SerialOutcomes :
        /\ subprocess_timeout' = SubprocessTimeout(ocfg.overall_timeout)
        /\ RunCanReturn(o, subprocess_timeout')
        /\ \E d \in SerialRunTimes(o, subprocess_timeout') : elapsed' = elapsed + d
        /\ rc' = o.rc
        /\ out' = o.out
        /\ err' = o.err
        /\ events' = Append(events, Event("serial", o))

\* how long an SSH attempt takes, the connection at least
SshAttemptTimes == { 1, MaxConnect }

\* ssh_ok, exit_code, transcript = _try_run_commands_over_ssh(cfg, commands)
TryRunCommandsOverSsh ==
    \E o \in SshOutcomes :
        /\ ssh_ok' = o.ok
        /\ exit_code' = o.code
        /\ transcript' = o.text
        /\ events' = Append(events, Event("ssh", NoResult))
        /\ \E d \in SshAttemptTimes : elapsed' = elapsed + d

\* transport == "ssh"
\* ssh mode handled like auto mode: the SSH result goes on to the fallback
MutMainSsh ==
    /\ opc = "start"
    /\ transport = "ssh"
    /\ TryRunCommandsOverSsh
    /\ opc' = "ssh_done"
    /\ UNCHANGED <<serVars, markVars, sshVars, holdVars, execVars>>
    /\ UNCHANGED <<transport, ssh_timeout, rc, out, err, final_rc, ocfg,
                   subprocess_timeout>>

MainSsh ==
    /\ opc = "start"
    /\ transport = "ssh"
    /\ TryRunCommandsOverSsh
    /\ final_rc' = IF ssh_ok' THEN exit_code' ELSE SSH_FAILED_EXIT_CODE
    /\ opc' = "done"
    /\ UNCHANGED <<serVars, markVars, sshVars, holdVars, execVars>>
    /\ UNCHANGED <<ocfg, subprocess_timeout>>
    /\ UNCHANGED <<transport, ssh_timeout, rc, out, err>>

\* transport == "serial": cleanup before the attempt
MainSerialCleanup ==
    /\ opc = "start"
    /\ transport = "serial"
    /\ TerminateSerialHolders
    /\ opc' = "serial_run"
    /\ UNCHANGED <<serVars, markVars, sshVars, holdVars, execVars>>
    /\ UNCHANGED <<ocfg, subprocess_timeout>>
    /\ UNCHANGED <<transport, ssh_ok, exit_code, transcript, ssh_timeout,
                   rc, out, err, final_rc>>

MainSerialRun ==
    /\ opc = "serial_run"
    /\ RunCommandsOverSerialFallback
    /\ opc' = "serial_classify"
    /\ UNCHANGED <<serVars, markVars, sshVars, holdVars, execVars>>
    /\ UNCHANGED ocfg
    /\ UNCHANGED <<transport, ssh_ok, exit_code, transcript, ssh_timeout, final_rc>>

\* the exit code serial mode gives to a serial result
SerialModeExitCode(r, o, e) ==
    IF r = 0 THEN 0
    ELSE IF IsSerialAliveNoLinuxShellResult(r, o, e)
         THEN ALIVE_NO_LINUX_SHELL_EXIT_CODE
    ELSE IF IsNoSerialConnectionResult(r, o, e) \/ IsSerialUnavailableResult(o, e)
         THEN NO_SERIAL_CONNECTION_EXIT_CODE
    ELSE r

MainSerialClassify ==
    /\ opc = "serial_classify"
    /\ final_rc' = SerialModeExitCode(rc, out, err)
    /\ opc' = "done"
    /\ UNCHANGED <<serVars, markVars, sshVars, holdVars, execVars>>
    /\ UNCHANGED <<ocfg, subprocess_timeout, elapsed>>
    /\ UNCHANGED <<transport, ssh_ok, exit_code, transcript, ssh_timeout,
                   rc, out, err, events>>

\* auto: SSH first
AutoSsh ==
    /\ opc = "start"
    /\ transport = "auto"
    /\ TryRunCommandsOverSsh
    /\ opc' = "ssh_done"
    /\ UNCHANGED <<serVars, markVars, sshVars, holdVars, execVars>>
    /\ UNCHANGED <<ocfg, subprocess_timeout>>
    /\ UNCHANGED <<transport, ssh_timeout, rc, out, err, final_rc>>

AutoSshOk ==
    /\ opc = "ssh_done"
    /\ ssh_ok
    /\ final_rc' = exit_code
    /\ opc' = "done"
    /\ UNCHANGED <<serVars, markVars, sshVars, holdVars, execVars>>
    /\ UNCHANGED <<ocfg, subprocess_timeout, elapsed>>
    /\ UNCHANGED <<transport, ssh_ok, exit_code, transcript, ssh_timeout,
                   rc, out, err, events>>

AutoAuthFailure ==
    /\ opc = "ssh_done"
    /\ ~ssh_ok
    /\ IsSshAuthFailure(transcript)
    /\ final_rc' = SSH_FAILED_EXIT_CODE
    /\ opc' = "done"
    /\ UNCHANGED <<serVars, markVars, sshVars, holdVars, execVars>>
    /\ UNCHANGED <<ocfg, subprocess_timeout, elapsed>>
    /\ UNCHANGED <<transport, ssh_ok, exit_code, transcript, ssh_timeout,
                   rc, out, err, events>>

MutNeedsCleanupBeforeFallback(t) == FALSE

\* "ssh failed; attempting serial fallback": ssh_timeout and the first cleanup
NeedsCleanupBeforeFallback(t) == SshTimeoutDetected(t)

AutoFallback ==
    /\ opc = "ssh_done"
    /\ ~ssh_ok
    /\ ~IsSshAuthFailure(transcript)
    /\ ssh_timeout' = SshTimeoutDetected(transcript)
    /\ IF NeedsCleanupBeforeFallback(transcript)
          THEN TerminateSerialHolders
          ELSE UNCHANGED <<events, elapsed>>
    /\ opc' = "auto_serial"
    /\ UNCHANGED <<serVars, markVars, sshVars, holdVars, execVars>>
    /\ UNCHANGED <<ocfg, subprocess_timeout>>
    /\ UNCHANGED <<transport, ssh_ok, exit_code, transcript, rc, out, err, final_rc>>

AutoSerial ==
    /\ opc = "auto_serial"
    /\ RunCommandsOverSerialFallback
    /\ opc' = "auto_classify"
    /\ UNCHANGED <<serVars, markVars, sshVars, holdVars, execVars>>
    /\ UNCHANGED ocfg
    /\ UNCHANGED <<transport, ssh_ok, exit_code, transcript, ssh_timeout, final_rc>>

\* the elif chain after the first serial attempt: does it reach the retry branch?
RetriesSerial(r, o, e, st) ==
    /\ ~IsSerialAliveNoLinuxShellResult(r, o, e)
    /\ ~IsNoSerialConnectionResult(r, o, e)
    /\ r # 0
    /\ st

AutoRetryCleanup ==
    /\ opc = "auto_classify"
    /\ RetriesSerial(rc, out, err, ssh_timeout)
    /\ TerminateSerialHolders
    /\ opc' = "auto_retry"
    /\ UNCHANGED <<serVars, markVars, sshVars, holdVars, execVars>>
    /\ UNCHANGED <<ocfg, subprocess_timeout>>
    /\ UNCHANGED <<transport, ssh_ok, exit_code, transcript, ssh_timeout,
                   rc, out, err, final_rc>>

AutoRetrySerial ==
    /\ opc = "auto_retry"
    /\ RunCommandsOverSerialFallback
    /\ opc' = "auto_finish"
    /\ UNCHANGED <<serVars, markVars, sshVars, holdVars, execVars>>
    /\ UNCHANGED ocfg
    /\ UNCHANGED <<transport, ssh_ok, exit_code, transcript, ssh_timeout, final_rc>>

AutoNoRetry ==
    /\ opc = "auto_classify"
    /\ ~RetriesSerial(rc, out, err, ssh_timeout)
    /\ opc' = "auto_finish"
    /\ UNCHANGED <<serVars, markVars, sshVars, holdVars, execVars>>
    /\ UNCHANGED <<ocfg, subprocess_timeout, elapsed>>
    /\ UNCHANGED <<transport, ssh_ok, exit_code, transcript, ssh_timeout,
                   rc, out, err, final_rc, events>>

\* the exit code auto mode gives to its last serial result
AutoModeExitCode(r, o, e) == r

AutoFinish ==
    /\ opc = "auto_finish"
    /\ final_rc' = AutoModeExitCode(rc, out, err)
    /\ opc' = "done"
    /\ UNCHANGED <<serVars, markVars, sshVars, holdVars, execVars>>
    /\ UNCHANGED <<ocfg, subprocess_timeout, elapsed>>
    /\ UNCHANGED <<transport, ssh_ok, exit_code, transcript, ssh_timeout,
                   rc, out, err, events>>

OrchNext ==
    \/ MainSsh
    \/ MainSerialCleanup
    \/ MainSerialRun
    \/ MainSerialClassify
    \/ AutoSsh
    \/ AutoSshOk
    \/ AutoAuthFailure
    \/ AutoFallback
    \/ AutoSerial
    \/ AutoRetryCleanup
    \/ AutoRetrySerial
    \/ AutoNoRetry
    \/ AutoFinish

OrchSpec == OrchInit /\ [][OrchNext]_vars

-----------------------------------------------------------------------------
(* Observations on the calls made by main *)

Calls(c) == { i \in 1..Len(events) : events[i].call = c }

Count(c) == Cardinality(Calls(c))

\* the result of the k-th serial attempt (k <= Count("serial"))
SerialResult(k) ==
    LET idx == CHOOSE i \in Calls("serial") :
                   Cardinality({ j \in Calls("serial") : j <= i }) = k
    IN  events[idx].res

SshFailed == opc # "start" /\ ~ssh_ok /\ Count("ssh") = 1

-----------------------------------------------------------------------------
(* C1: in auto mode, a failed SSH attempt whose transcript carries an        *)
(* authentication-failure indication ("Authentication failed",              *)
(* "AuthenticationException") ends the run with 255, and neither the serial *)
(* holder cleanup nor the serial transport is ever started.                 *)

C1_AuthIndication ==
    \/ ContainsLower(transcript, "authentication failed")
    \/ ContainsLower(transcript, "authenticationexception")

C1_AuthFailureAbortsWithoutSerial ==
    (transport = "auto" /\ SshFailed /\ C1_AuthIndication) =>
        /\ Count("cleanup") = 0
        /\ Count("serial") = 0
        /\ opc \in {"ssh_done", "done"}
        /\ (opc = "done" => final_rc = SSH_FAILED_EXIT_CODE)

C1_Witness ==
    /\ transport = "auto"
    /\ opc = "done"
    /\ SshFailed
    /\ transcript = {"SSH connect failed", "Authentication failed"}
    /\ final_rc = SSH_FAILED_EXIT_CODE
    /\ events = <<Event("ssh", NoResult)>>

-----------------------------------------------------------------------------
(* C2: in auto mode after a non-authentication SSH failure that looks like  *)
(* a timeout, a cleanup pass is completed before the first serial attempt;  *)
(* a first serial attempt that fails without being classified as            *)
(* not-reachable or alive-no-shell (the failure still attributed to the     *)
(* timeout) is retried exactly once, after a second cleanup pass; otherwise *)
(* it is not retried.  In every auto-mode run there are at most two serial  *)
(* attempts and at most two cleanup passes.                                 *)

C2_TimeoutFallback ==
    /\ transport = "auto"
    /\ SshFailed
    /\ ~C1_AuthIndication
    /\ (Contains(transcript, "TimeoutError") \/ ContainsLower(transcript, "timed out"))

\* the first serial attempt failed and nothing in its result says
\* "no terminal" or "alive, but no linux shell"
C2_FailedForTimeout(o) ==
    /\ o.rc \notin {0, NO_SERIAL_CONNECTION_EXIT_CODE, ALIVE_NO_LINUX_SHELL_EXIT_CODE}
    /\ Combined(o.out, o.err) \cap
          { "no serial connection", "connection appears inactive", "no terminal",
            "serial is alive, but no linux shell" } = {}

C2_CleanupThenSerialRetryOnce ==
    /\ transport = "auto" => (Count("serial") <= 2 /\ Count("cleanup") <= 2)
    /\ C2_TimeoutFallback =>
          /\ \A i \in Calls("serial") : i > 1 /\ events[i - 1].call = "cleanup"
          /\ opc = "done" =>
                /\ Count("serial") >= 1
                /\ Count("serial") = Count("cleanup")
                /\ Count("serial") = IF C2_FailedForTimeout(SerialResult(1)) THEN 2 ELSE 1

C2_Witness ==
    /\ C2_TimeoutFallback
    /\ opc = "done"
    /\ Len(events) = 5
    /\ events[2].call = "cleanup" /\ events[3].call = "serial"
    /\ events[4].call = "cleanup" /\ events[5].call = "serial"
    /\ events[3].res.rc = 6
    /\ events[5].res.rc = 0
    /\ final_rc = 0

-----------------------------------------------------------------------------
(* Observations on a serial session *)

ProbePositions ==
    { "p_open", "pA1_write", "pA1_read", "pA2_write", "pA2_read", "pB_write", "pB_read",
      "pC_write", "pC_read", "pD_write", "pD_read", "pD2_write", "pD2_read", "p_result" }

\* _wake_and_wait_for_console has returned
WakeReturned == spc \in { "wake_done", "sync_read", "cmd_top", "marker_write", "cmd_read" }

\* the output kept by _sync_marker holds the ready marker
ReadyMarkerSeen == \E i \in 1..Len(sync_out) : sync_out[i] \in { <<"M", 0>>, <<"E", 0>> }

\* _sync_marker has returned in the session in progress
SyncReturned ==
    \/ spc \in { "cmd_top", "marker_write", "cmd_read" }
    \/ spc = "done" /\ outcome \in { "sync_failed", "success", "overall_timeout",
                                      "command_timeout" }

-----------------------------------------------------------------------------
(* C3: against a device that delivers no byte, the wake phase stops after   *)
(* 2 consecutive empty probe windows, returns not-ready with the            *)
(* "connection appears inactive" message, returns before its deadline is    *)
(* reached, and main exits with 12.                                         *)

C3_SilentDevice == devCfg.kind = "silent"

C3_SilentStopsBeforeDeadline ==
    (C3_SilentDevice /\ spc = "wake_done") =>
        /\ ~ready
        /\ ready_out.msg = "inactive"
        /\ silent_probes = SERIAL_MAX_CONSECUTIVE_SILENT_PROBES
        /\ NotReadyExit(ready_out) = NO_SERIAL_CONNECTION_EXIT_CODE
        /\ now < deadline

-----------------------------------------------------------------------------
(* C4: against a console that prints "login: ", then "Password: " once it   *)
(* has received the username, then a shell prompt, with username and        *)
(* password configured and time enough, the wake phase returns ready having *)
(* written the username once and the password once, however the console's   *)
(* output falls into the probe windows and the reads (here: a console that  *)
(* answers every line at once, so that its answer falls into the probe      *)
(* window that follows the write).                                          *)

C4_LoginConsole ==
    /\ devCfg.kind = "login" /\ devCfg.timely
    /\ cfg.device /\ cfg.username /\ cfg.password
    /\ cfg.overall_timeout # ShortOverall

C4_LoginReachesReadyOnce ==
    (C4_LoginConsole /\ spc = "wake_done") =>
        /\ ready
        /\ written["user"] = 1
        /\ written["pass"] = 1

-----------------------------------------------------------------------------
(* C5: on a console that is at a shell prompt neither the username nor the  *)
(* password is ever written; once the console's prompt has been read,       *)
(* _probe_port returns state "shell" and _wake_and_wait_for_console returns *)
(* ready.                                                                   *)

C5_AtShellPrompt == devCfg.kind = "shell"

-----------------------------------------------------------------------------
(* C6: any two invocations of _run_one_command, in one run or in two, use   *)
(* distinct marker strings.                                                 *)

C6_MarkersDistinct ==
    \A i, j \in 1..Len(issued) : i # j => issued[i].marker # issued[j].marker

-----------------------------------------------------------------------------
(* C7: whenever _run_one_command reports success for a command, the console *)
(* has finished running that command.                                       *)

C7_SuccessMeansFinished == cmd_i >= 1 => devFinished >= cmd_i - 1

-----------------------------------------------------------------------------
(* C8: no user command is written unless the output read by _sync_marker    *)
(* holds the ready marker; when it does not (the read timed out, or the     *)
(* prompt pattern matched first), main returns 4 and no COMMAND section is  *)
(* printed.                                                                 *)

C8_Witness ==
    /\ SyncReturned
    /\ FirstMatch(SyncPatterns, sync_out) = 1
    /\ ret = EXIT_SYNC_FAILED
    /\ sections = 0

-----------------------------------------------------------------------------
(* C9: every outcome of the serial runner has one fixed exit code and the   *)
(* codes are pairwise distinct: success 0, no terminal 12, alive but no     *)
(* linux shell 13, sync failure 4, overall timeout 5, command timeout 6,    *)
(* and serial error 10; every run that ends, ends with one of them.         *)

C9_Outcomes ==
    { "success", "no_terminal", "alive_no_shell", "sync_failed", "overall_timeout",
      "command_timeout", "serial_error" }

C9_CodeOf(o) ==
    CASE o = "success" -> EXIT_OK
      [] o = "no_terminal" -> NO_SERIAL_CONNECTION_EXIT_CODE
      [] o = "alive_no_shell" -> ALIVE_NO_LINUX_SHELL_EXIT_CODE
      [] o = "sync_failed" -> EXIT_SYNC_FAILED
      [] o = "overall_timeout" -> EXIT_OVERALL_TIMEOUT
      [] o = "command_timeout" -> EXIT_COMMAND_TIMEOUT
      [] o = "serial_error" -> EXIT_SERIAL_ERROR

C9_OneCodePerOutcome ==
    /\ \A a, b \in C9_Outcomes : a # b => C9_CodeOf(a) # C9_CodeOf(b)
    /\ ret # NotReturned =>
          /\ outcome \in C9_Outcomes
          /\ ret = C9_CodeOf(outcome)

C9_Witness == ret = EXIT_SERIAL_ERROR /\ outcome = "serial_error" /\ attempt = SERIAL_OPEN_RETRIES

\* the statement with the codes of the specification only
C9_OnlyDocumentedCodes ==
    ret # NotReturned =>
        ret \in { EXIT_OK, NO_SERIAL_CONNECTION_EXIT_CODE, ALIVE_NO_LINUX_SHELL_EXIT_CODE,
                  EXIT_SYNC_FAILED, EXIT_OVERALL_TIMEOUT, EXIT_COMMAND_TIMEOUT }

-----------------------------------------------------------------------------
(* C10: in serial mode and in the auto-mode fallback the exit code of main  *)
(* is the classification of the serial outcome: not-reachable -> 12,        *)
(* reachable-but-not-usable -> 13, any other non-zero outcome -> a generic  *)
(* code other than 0, 12, 13; and both modes give the same outcome the same *)
(* code.                                                                    *)

C10_NotReachable(r, o, e) ==
    \/ r = NO_SERIAL_CONNECTION_EXIT_CODE
    \/ Combined(o, e) \cap
          { "no serial connection", "connection appears inactive", "no terminal" } # {}

C10_NotUsable(r, o, e) ==
    \/ r = ALIVE_NO_LINUX_SHELL_EXIT_CODE
    \/ "serial is alive, but no linux shell" \in Combined(o, e)

C10_SerialRan ==
    /\ opc = "done"
    /\ transport \in {"serial", "auto"}
    /\ Count("serial") >= 1

C10_ExitCodeIsClassification ==
    C10_SerialRan =>
        /\ (C10_NotReachable(rc, out, err) /\ ~C10_NotUsable(rc, out, err) /\ rc # 0)
              => final_rc = NO_SERIAL_CONNECTION_EXIT_CODE
        /\ (C10_NotUsable(rc, out, err) /\ ~C10_NotReachable(rc, out, err) /\ rc # 0)
              => final_rc = ALIVE_NO_LINUX_SHELL_EXIT_CODE
        /\ (rc # 0 /\ ~C10_NotReachable(rc, out, err) /\ ~C10_NotUsable(rc, out, err))
              => final_rc \notin {0, NO_SERIAL_CONNECTION_EXIT_CODE,
                                  ALIVE_NO_LINUX_SHELL_EXIT_CODE}
        /\ SerialModeExitCode(rc, out, err) = AutoModeExitCode(rc, out, err)

-----------------------------------------------------------------------------
(* Observations on the wake phase *)

WakePositions ==
    { "w_write", "w_probe", "loop_top", "poke_write", "poke_probe", "user_write",
      "user_read", "user_probe", "pw2_write", "pw2_read", "pw_write", "pw_probe" }

\* the scheduler keeps the runner and the console running
SerialFairSpec == SerialSpec /\ WF_vars(SerialNext)

-----------------------------------------------------------------------------
(* C11: a session that did not reach a shell prompt is classified           *)
(* unreachable (exit code 12) only if no byte at all was read from the      *)
(* device; if at least one byte was read it is classified alive-no-shell    *)
(* (exit code 13).                                                          *)

C11_InactiveOnlyWithoutBytes ==
    (spc = "wake_done" /\ ~ready /\ tparts # {}) =>
        NotReadyExit(ready_out) = ALIVE_NO_LINUX_SHELL_EXIT_CODE

-----------------------------------------------------------------------------
(* C12: _wake_and_wait_for_console, once called, returns (ready or not),    *)
(* whatever the device does and whatever the timeouts are.                  *)

-----------------------------------------------------------------------------
(* terminal_command_runner._try_run_commands_over_ssh.  Times are in ticks  *)
(* of 0.1 s; a transcript line is a pair <<text, number>>.                  *)

SSH_MIN_REMAINING == 1      \* max(0.1, overall_deadline - _now())
SSH_POLL == 1               \* time.sleep(0.05), rounded up to a tick

QuickCommand == 2           \* a remote command that ends at once
SlowCommand == 9            \* a remote command that outlasts ShortOverall

ConnectTimes == { 0, MaxConnect }
\* Inf: the remote command never ends by itself
CommandDurations == { QuickCommand, SlowCommand, Inf }
CommandStatuses == { 0, 1, 2 }

SshInit ==
    /\ ocfg \in RunnerConfigs
    /\ s_pc = "start"
    /\ s_now = 0
    /\ s_overall_deadline = Inf
    /\ s_i = 0
    /\ s_remaining = 0
    /\ s_per_cmd_timeout = 0
    /\ s_started = 0
    /\ s_exit_code = 0
    /\ s_transcript = <<>>
    /\ s_result = [ok |-> FALSE, code |-> NotReturned]
    /\ s_statuses = <<>>
    /\ OrchProgramIdle
    /\ SerialIdle
    /\ MarkIdle
    /\ HoldIdle
    /\ ExecIdle

MutSshReturn(ok, code) ==
    /\ s_result' = [ok |-> ok /\ code = 0, code |-> code]
    /\ s_pc' = "returned"

\* return ok, code, "\n".join(transcript)
SshReturn(ok, code) ==
    /\ s_result' = [ok |-> ok, code |-> code]
    /\ s_pc' = "returned"

\* paramiko is None
ParamikoMissing ==
    /\ s_pc = "start"
    /\ s_transcript' = << <<"paramiko not available", 0>> >>
    /\ SshReturn(FALSE, SSH_FAILED_EXIT_CODE)
    /\ UNCHANGED <<s_now, s_overall_deadline, s_i, s_remaining, s_per_cmd_timeout,
                   s_started, s_exit_code>>
    /\ UNCHANGED s_statuses
    /\ UNCHANGED <<orchVars, serVars, markVars, holdVars, execVars>>

\* overall_deadline = _deadline_from_timeout(cfg.overall_timeout); the two header lines
SshBegin ==
    /\ s_pc = "start"
    /\ s_overall_deadline' = DeadlineFromTimeout(s_now, ocfg.overall_timeout)
    /\ s_transcript' = << <<"transport: ssh", 0>>, <<"target", 0>> >>
    /\ s_pc' = "connect"
    /\ UNCHANGED <<s_now, s_i, s_remaining, s_per_cmd_timeout, s_started,
                   s_exit_code, s_result>>
    /\ UNCHANGED s_statuses
    /\ UNCHANGED <<orchVars, serVars, markVars, holdVars, execVars>>

\* client.connect(...) raises
ConnectFailed ==
    /\ s_pc = "connect"
    /\ \E t \in ConnectTimes : s_now' = s_now + t
    /\ s_transcript' = Append(s_transcript, <<"SSH connect failed", 0>>)
    /\ SshReturn(FALSE, SSH_FAILED_EXIT_CODE)
    /\ UNCHANGED <<s_overall_deadline, s_i, s_remaining, s_per_cmd_timeout,
                   s_started, s_exit_code>>
    /\ UNCHANGED s_statuses
    /\ UNCHANGED <<orchVars, serVars, markVars, holdVars, execVars>>

\* client.connect(...) returns; exit_code = 0; the for loop begins
ConnectOk ==
    /\ s_pc = "connect"
    /\ \E t \in ConnectTimes : s_now' = s_now + t
    /\ s_exit_code' = 0
    /\ s_i' = 1
    /\ s_pc' = "cmd_top"
    /\ UNCHANGED <<s_overall_deadline, s_remaining, s_per_cmd_timeout, s_started,
                   s_transcript, s_result>>
    /\ UNCHANGED s_statuses
    /\ UNCHANGED <<orchVars, serVars, markVars, holdVars, execVars>>

\* remaining = max(0.1, overall_deadline - _now())
Remaining(deadline_, t) == Max(SSH_MIN_REMAINING, TimeLeft(deadline_, t))

\* per_cmd_timeout = remaining if cfg.command_timeout <= 0 else min(cfg.command_timeout, remaining)
PerCmdTimeout(command_timeout, remaining) ==
    IF command_timeout <= 0 THEN remaining ELSE Min(command_timeout, remaining)

\* one iteration of the for loop up to `started = _now()` of the remote command
SshCommandStart ==
    /\ s_pc = "cmd_top"
    /\ s_i <= NumCommands
    /\ s_remaining' = Remaining(s_overall_deadline, s_now)
    /\ s_per_cmd_timeout' = PerCmdTimeout(ocfg.command_timeout, s_remaining')
    /\ IF s_remaining' <= 0
          THEN /\ s_transcript' =
                     Append(s_transcript, <<"ERROR: overall timeout exceeded", 0>>)
               /\ SshReturn(TRUE, EXIT_OVERALL_TIMEOUT)
               /\ UNCHANGED s_started
          ELSE /\ s_transcript' =
                     s_transcript \o << <<"===== COMMAND", s_i>>, <<"$", s_i>> >>
               /\ s_started' = s_now
               /\ s_pc' = "cmd_run"
               /\ UNCHANGED s_result
    /\ UNCHANGED <<s_now, s_overall_deadline, s_i, s_exit_code>>
    /\ UNCHANGED s_statuses
    /\ UNCHANGED <<orchVars, serVars, markVars, holdVars, execVars>>

\* the lines the loop body appends after the command has returned <status>
StatusLines(status, timed_out) ==
    (IF timed_out THEN << <<"ERROR: command timed out", s_i>> >> ELSE <<>>)
    \o (IF status # 0 THEN << <<"NOTE: remote exit status", status>> >> ELSE <<>>)

\* the last non-zero status instead of the first
MutFirstNonZero(exit_code_, status) == IF status # 0 THEN status ELSE exit_code_

\* `if exit_code == 0: exit_code = int(status)`
FirstNonZero(exit_code_, status) ==
    IF status # 0 /\ exit_code_ = 0 THEN status ELSE exit_code_

\* the rest of the loop body, after _run_remote_command_interactive has returned
AfterCommand(status, timed_out) ==
    /\ s_transcript' = s_transcript \o StatusLines(status, timed_out)
    /\ s_exit_code' = FirstNonZero(s_exit_code, status)
    /\ s_statuses' = Append(s_statuses, status)
    /\ s_i' = s_i + 1
    /\ s_pc' = "cmd_top"

\* does the polling loop see (_now() - started) > timeout_s before the exit status?
TimesOut(duration, timeout_s) == timeout_s > 0 /\ duration > timeout_s

\* chan.exit_status_ready(): return rc, out, err
SshCommandExit ==
    /\ s_pc = "cmd_run"
    /\ \E d \in CommandDurations, status \in CommandStatuses :
          /\ d < Inf
          /\ ~TimesOut(d, s_per_cmd_timeout)
          /\ s_now' = s_started + d
          /\ AfterCommand(status, FALSE)
    /\ UNCHANGED <<s_overall_deadline, s_remaining, s_per_cmd_timeout, s_started,
                   s_result>>
    /\ UNCHANGED <<orchVars, serVars, markVars, holdVars, execVars>>

\* return 124, out, err + "command timed out after ..."
SshCommandTimedOut ==
    /\ s_pc = "cmd_run"
    /\ \E d \in CommandDurations :
          /\ TimesOut(d, s_per_cmd_timeout)
          /\ s_now' = s_started + s_per_cmd_timeout + SSH_POLL
          /\ AfterCommand(SUBPROCESS_TIMEOUT_EXIT_CODE, TRUE)
    /\ UNCHANGED <<s_overall_deadline, s_remaining, s_per_cmd_timeout, s_started,
                   s_result>>
    /\ UNCHANGED <<orchVars, serVars, markVars, holdVars, execVars>>

\* _run_remote_command_interactive raises: return True, 124, transcript
SshCommandException ==
    /\ s_pc = "cmd_run"
    /\ s_transcript' = Append(s_transcript, <<"ERROR: command execution failed", s_i>>)
    /\ SshReturn(TRUE, SUBPROCESS_TIMEOUT_EXIT_CODE)
    /\ UNCHANGED <<s_now, s_overall_deadline, s_i, s_remaining, s_per_cmd_timeout,
                   s_started, s_exit_code>>
    /\ UNCHANGED s_statuses
    /\ UNCHANGED <<orchVars, serVars, markVars, holdVars, execVars>>

\* the for loop is exhausted: "[terminal-runner] done"
SshDone ==
    /\ s_pc = "cmd_top"
    /\ s_i > NumCommands
    /\ s_transcript' = Append(s_transcript, <<"done", 0>>)
    /\ SshReturn(TRUE, s_exit_code)
    /\ UNCHANGED <<s_now, s_overall_deadline, s_i, s_remaining, s_per_cmd_timeout,
                   s_started, s_exit_code>>
    /\ UNCHANGED s_statuses
    /\ UNCHANGED <<orchVars, serVars, markVars, holdVars, execVars>>

SshNext ==
    \/ ParamikoMissing
    \/ SshBegin
    \/ ConnectFailed
    \/ ConnectOk
    \/ SshCommandStart
    \/ SshCommandExit
    \/ SshCommandTimedOut
    \/ SshCommandException
    \/ SshDone

SshSpec == SshInit /\ [][SshNext]_vars

-----------------------------------------------------------------------------
(* One run of either program: the orchestrator's main, the serial runner,   *)
(* or the SSH executor.                                                     *)

RunInit == OrchInit \/ SerialInit \/ SshInit

RunNext ==
    \/ (~OrchProgramIdle /\ OrchNext)
    \/ (OrchProgramIdle /\ s_pc = "idle" /\ SerialNext)
    \/ SshNext

RunSpec == RunInit /\ [][RunNext]_vars

\* a command timeout that the overall budget has not shortened
Unshortened(command_timeout, timeout_s) ==
    IF command_timeout <= 0 THEN timeout_s >= Inf ELSE timeout_s = command_timeout

(* C13: with overall_timeout <= 0 no run ends early because of the overall   *)
(* timeout: neither the SSH executor nor the serial runner reports code 5,   *)
(* the timeout handed to a command is the configured command timeout (or     *)
(* unlimited when there is none), and the serial subprocess is launched with *)
(* timeout None.                                                             *)
C13_NoLimitNeverEndsEarly ==
    /\ ocfg.overall_timeout <= 0 =>
          /\ s_result.code # EXIT_OVERALL_TIMEOUT
          /\ s_pc = "cmd_run" => Unshortened(ocfg.command_timeout, s_per_cmd_timeout)
          /\ Count("serial") > 0 => subprocess_timeout = None
    /\ cfg.overall_timeout <= 0 =>
          /\ ret # EXIT_OVERALL_TIMEOUT
          /\ (spc = "cmd_top" /\ cmd_i <= NumCommands) =>
                Unshortened(cfg.command_timeout, EffectiveCommandTimeout)

\* without a limit the last command is started long after a short budget would have ended
C13_Witness ==
    /\ ocfg.overall_timeout <= 0
    /\ s_pc = "cmd_run"
    /\ s_i = NumCommands
    /\ s_started > ShortOverall

(* C14: for every command started with command_timeout > 0 and               *)
(* overall_timeout > 0, on the SSH path and on the serial path, the timeout  *)
(* handed to the command is min(command_timeout, time remaining in the       *)
(* overall budget).                                                          *)
C14_OverallDominates ==
    /\ (s_pc = "cmd_run" /\ ocfg.command_timeout > 0 /\ ocfg.overall_timeout > 0) =>
          s_per_cmd_timeout = Min(ocfg.command_timeout, s_overall_deadline - s_started)
    /\ (/\ spc = "cmd_top" /\ cmd_i <= NumCommands /\ now < overall_deadline
        /\ cfg.command_timeout > 0 /\ cfg.overall_timeout > 0) =>
          EffectiveCommandTimeout = Min(cfg.command_timeout, overall_deadline - now)

(* C15: no command is started after the overall deadline has passed, on the  *)
(* SSH path (the remote command's start time) and on the serial path (the    *)
(* command line being written).                                              *)
C15_NoStartAfterDeadline ==
    /\ s_pc = "cmd_run" => s_started < s_overall_deadline
    /\ spc = "marker_write" => now < overall_deadline

\* is line <l> of the SSH transcript the section header of a command?
IsSection(l) == l[1] = "===== COMMAND"

(* C16: after a command has timed out no later command is sent: the SSH      *)
(* transcript has no section header after a "command timed out" line, and a  *)
(* serial run that returned 6 has written no command after the one that      *)
(* timed out.                                                                *)
C16_TimeoutAbortsBatch ==
    /\ \A a, b \in 1..Len(s_transcript) :
          (a < b /\ s_transcript[a][1] = "ERROR: command timed out") =>
             ~IsSection(s_transcript[b])
    /\ ret = EXIT_COMMAND_TIMEOUT => written["cmd"] = cmd_i

SshSections == SelectSeq(s_transcript, IsSection)

\* is line <l> of the SSH transcript the note of a non-zero exit status?
IsNote(l) == l[1] = "NOTE: remote exit status"

\* the statuses noted in the SSH transcript, in order
SshNotes == SelectSeq(s_transcript, IsNote)

\* the non-zero statuses among <st>, in order
NonZero(st) == SelectSeq(st, LAMBDA x : x # 0)

-----------------------------------------------------------------------------
(* terminal_command_runner._terminate_serial_holders and the processes it   *)
(* signals.  A process holds one serial device or none, belongs to the      *)
(* user of the runner or to another user, and may handle SIGTERM.           *)


MaxHolders == 2             \* processes of the host that the model follows
MaxDevices == 2             \* serial devices _collect_serial_devices may return

Pids == 1..MaxHolders

ProcKinds ==
    { k \in [ dev : 0..MaxDevices, mine : BOOLEAN, traps : BOOLEAN, state : {"running"} ] :
        /\ k.dev = 0 => (k.mine /\ ~k.traps)
        /\ ~k.mine => ~k.traps }

HoldInit ==
    /\ h_pc = "start"
    /\ h_tool \in { "lsof", "fuser", "none" }
    /\ h_devices \in 0..MaxDevices
    /\ h_d = 0
    /\ h_procs \in [ Pids -> ProcKinds ]
    /\ \A p \in Pids : h_procs[p].dev <= h_devices
    /\ h_pids = {}
    /\ h_seen = {}
    /\ h_lines = <<>>
    /\ h_now = 0
    /\ OrchIdle
    /\ SerialIdle
    /\ MarkIdle
    /\ SshIdle
    /\ ExecIdle

\* _pids_using_device(device): sorted(set(pids)) from lsof -t, else from fuser
PidsUsingDevice(d) ==
    IF h_tool = "none" THEN {}
    ELSE { p \in Pids : h_procs[p].dev = d /\ h_procs[p].state # "dead" }

\* the pids of <S> in increasing order
PidSeq(S) ==
    CHOOSE f \in [ 1..Cardinality(S) -> S ] :
        \A i, j \in 1..Cardinality(S) : i < j => f[i] < f[j]

\* a process ends by itself, or completes the exit that SIGTERM started
HolderExits ==
    /\ h_pc \in { "device", "sleep", "check" }
    /\ \E p \in Pids :
          /\ h_procs[p].dev # 0
          /\ h_procs[p].state # "dead"
          /\ h_procs' = [h_procs EXCEPT ![p].state = "dead"]
    /\ UNCHANGED <<h_pc, h_tool, h_devices, h_d, h_pids, h_seen, h_lines, h_now>>
    /\ UNCHANGED <<orchVars, serVars, markVars, sshVars, execVars>>

\* `if not devices: return "... no /dev/ttyUSB* or /dev/ttyACM* devices found"`
NoDevices ==
    /\ h_pc = "start"
    /\ h_devices = 0
    /\ h_lines' = << <<"no devices found", 0>> >>
    /\ h_pc' = "returned"
    /\ UNCHANGED <<h_tool, h_devices, h_d, h_procs, h_pids, h_seen, h_now>>
    /\ UNCHANGED <<orchVars, serVars, markVars, sshVars, execVars>>

\* `for device in devices:`
HoldBegin ==
    /\ h_pc = "start"
    /\ h_devices > 0
    /\ h_d' = 1
    /\ h_pc' = "device"
    /\ UNCHANGED <<h_tool, h_devices, h_procs, h_pids, h_seen, h_lines, h_now>>
    /\ UNCHANGED <<orchVars, serVars, markVars, sshVars, execVars>>

\* `if not pids: ... continue`
NoHolder ==
    /\ h_pc = "device"
    /\ h_d <= h_devices
    /\ PidsUsingDevice(h_d) = {}
    /\ h_lines' = Append(h_lines, <<"no holder process", h_d>>)
    /\ h_d' = h_d + 1
    /\ UNCHANGED <<h_pc, h_tool, h_devices, h_procs, h_pids, h_seen, h_now>>
    /\ UNCHANGED <<orchVars, serVars, markVars, sshVars, execVars>>

\* os.kill(pid, signal.SIGTERM): what it does to process <k>
Sigterm(k) ==
    IF k.mine /\ ~k.traps /\ k.state = "running" THEN [k EXCEPT !.state = "dying"] ELSE k

\* the pids of <S> for which os.kill raises PermissionError
NoPermission(S) == { p \in S : ~h_procs[p].mine /\ h_procs[p].state # "dead" }

\* "held by pids ...; terminating", SIGTERM to every pid
SendSigterm ==
    /\ h_pc = "device"
    /\ h_d <= h_devices
    /\ PidsUsingDevice(h_d) # {}
    /\ h_pids' = PidsUsingDevice(h_d)
    /\ h_seen' = h_seen \cup h_pids'
    /\ h_lines' = Append(h_lines, <<"held by pids; terminating", h_d>>)
                    \o [ i \in 1..Cardinality(NoPermission(h_pids')) |->
                           <<"no permission to terminate pid",
                             PidSeq(NoPermission(h_pids'))[i]>> ]
    /\ h_procs' = [ p \in Pids |-> IF p \in h_pids' THEN Sigterm(h_procs[p])
                                   ELSE h_procs[p] ]
    /\ h_pc' = "sleep"
    /\ UNCHANGED <<h_tool, h_devices, h_d, h_now>>
    /\ UNCHANGED <<orchVars, serVars, markVars, sshVars, execVars>>

\* time.sleep(0.5)
GraceSleep ==
    /\ h_pc = "sleep"
    /\ h_now' = h_now + HOLDER_GRACE
    /\ h_pc' = "check"
    /\ UNCHANGED <<h_tool, h_devices, h_d, h_procs, h_pids, h_seen, h_lines>>
    /\ UNCHANGED <<orchVars, serVars, markVars, sshVars, execVars>>

\* os.kill(pid, 0) does not raise ProcessLookupError
Survivors(S) == { p \in S : h_procs[p].state # "dead" }

\* os.kill(pid, signal.SIGKILL): what it does to process <k>
Sigkill(k) == IF k.mine THEN [k EXCEPT !.state = "dead"] ELSE k

\* `if remaining:` escalate to SIGKILL; next device
Escalate ==
    /\ h_pc = "check"
    /\ Survivors(h_pids) # {}
    /\ h_lines' = Append(h_lines, <<"escalating to SIGKILL", h_d>>)
    /\ h_procs' = [ p \in Pids |-> IF p \in Survivors(h_pids) THEN Sigkill(h_procs[p])
                                   ELSE h_procs[p] ]
    /\ h_d' = h_d + 1
    /\ h_pc' = "device"
    /\ UNCHANGED <<h_tool, h_devices, h_pids, h_seen, h_now>>
    /\ UNCHANGED <<orchVars, serVars, markVars, sshVars, execVars>>

\* no pid is left after the grace period; next device
NoSurvivors ==
    /\ h_pc = "check"
    /\ Survivors(h_pids) = {}
    /\ h_d' = h_d + 1
    /\ h_pc' = "device"
    /\ UNCHANGED <<h_tool, h_devices, h_procs, h_pids, h_seen, h_lines, h_now>>
    /\ UNCHANGED <<orchVars, serVars, markVars, sshVars, execVars>>

\* return "\n".join(lines)
HoldReturn ==
    /\ h_pc = "device"
    /\ h_d > h_devices
    /\ h_pc' = "returned"
    /\ UNCHANGED <<h_tool, h_devices, h_d, h_procs, h_pids, h_seen, h_lines, h_now>>
    /\ UNCHANGED <<orchVars, serVars, markVars, sshVars, execVars>>

HoldNext ==
    \/ HolderExits
    \/ NoDevices
    \/ HoldBegin
    \/ NoHolder
    \/ SendSigterm
    \/ GraceSleep
    \/ Escalate
    \/ NoSurvivors
    \/ HoldReturn

HoldSpec == HoldInit /\ [][HoldNext]_vars

(* C18: when _terminate_serial_holders returns, no process that it found     *)
(* holding a candidate device is still alive, and it has taken no longer     *)
(* than one grace period per device.                                         *)
C18_NoHolderSurvivesCleanup ==
    h_pc = "returned" =>
        /\ \A p \in h_seen : h_procs[p].state = "dead"
        /\ h_now <= h_devices * HOLDER_GRACE

-----------------------------------------------------------------------------
(* What serial main prints of the transcripts it holds                      *)

\* print(... + probe_transcript): the alive-no-shell selection, the exit-3
\* branch, and "auto-detect transcript (partial)" once the marker is synchronized
ProbeTranscriptPrinted ==
    \/ outcome = "alive_no_shell" /\ sel_state = "alive_no_shell"
    \/ outcome = "no_prompt"
    \/ spc \in { "cmd_top", "marker_write", "cmd_read" }
    \/ outcome \in { "success", "overall_timeout", "command_timeout" }

\* print("session transcript (partial):" + ready_out): the three returns of
\* `if not ready`
SessionTranscriptPrinted ==
    /\ outcome \in { "no_terminal", "alive_no_shell", "no_prompt" }
    /\ sel_state \in { "unknown", "shell" }

\* the device text in what main has printed
PrintedText ==
    (IF ProbeTranscriptPrinted THEN Range(ptrans) ELSE {})
        \cup (IF SessionTranscriptPrinted THEN ready_out.text ELSE {})
        \cup (IF outcome = "sync_failed" THEN Range(sync_out) ELSE {})
        \cup Range(cmd_out)

(* C21: the password written to the device is in nothing the serial runner  *)
(* prints: not in the probe transcript, not in the session transcript of a  *)
(* failure path, not in the output of the marker sync or of a command, even *)
(* when the device echoes what is typed.                                    *)

C21_PasswordNeverPrinted == Tok("S") \notin PrintedText

-----------------------------------------------------------------------------
(* C22: within one run each supplied command is written to the device at    *)
(* most once, a SerialException raised in the middle of the session         *)
(* included: the command lines written never outnumber the commands         *)
(* started.                                                                 *)

C22_CommandsWrittenOnce == written["cmd"] <= Min(cmd_i, NumCommands)

-----------------------------------------------------------------------------
(* C23: marker sync accepts every working shell.  When the console is an    *)
(* idle shell, _sync_marker fails only by running into its deadline without *)
(* the marker: it never returns failure on text it has read, however the    *)
(* output is split into reads and whatever was still arriving from the wake *)
(* newlines.                                                                *)

C23_SyncAcceptsWorkingShell ==
    (outcome = "sync_failed" /\ devMode = "shell") =>
        FirstMatch(SyncPatterns, sync_out) = 0 - 1

-----------------------------------------------------------------------------
(* C24: the silence budget is the same at every step of the wake phase: the *)
(* "connection appears inactive" failure is returned only when the count of *)
(* consecutive empty probe windows has reached the cap of 2, never after a  *)
(* single empty window.                                                     *)

C24_InactiveOnlyAtCap ==
    (spc = "wake_done" /\ ready_out.msg = "inactive") =>
        SilenceCapReached(silent_probes)

-----------------------------------------------------------------------------
(* terminal_command_runner._run_remote_command_interactive: the polling     *)
(* loop, and the remote command at the other end of the channel.  What the  *)
(* remote writes is a sequence of chunks <<kind, bytes>>: "d" output, "p" a *)
(* password prompt of sudo.  The PTY carries stderr on the same stream.     *)

RECV_SIZE == 4096           \* chan.recv(4096)
TAIL_CHARS == 4000          \* _combined_tail(max_chars=4000)
TIMEOUT_STATUS == 124       \* return 124, ... "command timed out"

MaxWrites == 3              \* chunks the remote command writes
ExecTimeout == 3            \* a positive timeout_s
MaxExecTime == 6            \* the model follows a call up to this time
MaxPrompts == 2             \* password prompts of one remote command

ChunkSizes == { 1, RECV_SIZE }

RECURSIVE Bytes(_)
Bytes(q) == IF q = <<>> THEN 0 ELSE Head(q)[2] + Bytes(Tail(q))

\* how many pending chunks one recv(4096) returns
RecvCount(q) ==
    CHOOSE k \in 0..Len(q) :
        /\ Bytes(Prefix(q, k)) <= RECV_SIZE
        /\ k < Len(q) => Bytes(Prefix(q, k + 1)) > RECV_SIZE

\* _SUDO_PROMPT_RE.search(_combined_tail())
SudoPromptInTail(q) ==
    \E i \in 1..Len(q) : q[i][1] = "p" /\ Bytes(Suffix(q, i)) < TAIL_CHARS

ExecConfigs ==
    [ kind : { "plain", "sudo" }, timeout_s : { 0, ExecTimeout }, password : BOOLEAN ]

\* chan.exec_command(command) has been called
ExecInit ==
    /\ x_cfg \in ExecConfigs
    /\ x_pc = "recv"
    /\ x_remote = "running"
    /\ x_stream = <<>>
    /\ x_stdout = <<>>
    /\ x_sent_password = FALSE
    /\ x_sends = 0
    /\ x_closed = FALSE
    /\ x_now = 0
    /\ x_status = 0 - 1
    /\ OrchIdle
    /\ SerialIdle
    /\ MarkIdle
    /\ SshIdle
    /\ HoldIdle

ExecRunning == x_pc \notin { "idle", "returned" }

\* the remote command writes output; the transport thread puts it in the channel
RemoteWrite ==
    /\ ExecRunning /\ x_remote = "running"
    /\ Len(x_stream) + Len(x_stdout) < MaxWrites
    /\ \E n \in ChunkSizes : x_stream' = Append(x_stream, <<"d", n>>)
    /\ UNCHANGED <<x_cfg, x_pc, x_remote, x_stdout, x_sent_password, x_sends,
                   x_closed, x_now, x_status>>
    /\ UNCHANGED <<orchVars, serVars, markVars, sshVars, holdVars>>

\* how many password prompts q holds
Prompts(q) == Cardinality({ i \in 1..Len(q) : q[i][1] = "p" })

\* sudo asks for the password, the first time or again, and waits for it
RemotePrompt ==
    /\ ExecRunning /\ x_remote = "running"
    /\ x_cfg.kind = "sudo"
    /\ Prompts(x_stream \o x_stdout) < MaxPrompts
    /\ x_stream' = Append(x_stream, <<"p", 1>>)
    /\ x_remote' = "waiting"
    /\ UNCHANGED <<x_cfg, x_pc, x_stdout, x_sent_password, x_sends,
                   x_closed, x_now, x_status>>
    /\ UNCHANGED <<orchVars, serVars, markVars, sshVars, holdVars>>

\* the remote command ends, or is ended while it waits for the password: the
\* exit status arrives after its output
RemoteExit ==
    /\ ExecRunning /\ x_remote \in { "running", "waiting" }
    /\ x_remote' = "exited"
    /\ UNCHANGED <<x_cfg, x_pc, x_stream, x_stdout, x_sent_password, x_sends,
                   x_closed, x_now, x_status>>
    /\ UNCHANGED <<orchVars, serVars, markVars, sshVars, holdVars>>

\* `if chan.recv_ready(): stdout_chunks.append(chan.recv(4096))`; with a PTY
\* recv_stderr_ready() is never true
ExecRecv ==
    /\ x_pc = "recv"
    /\ LET k == RecvCount(x_stream) IN
          /\ x_stdout' = x_stdout \o Prefix(x_stream, k)
          /\ x_stream' = Suffix(x_stream, k)
    /\ x_pc' = "sudo"
    /\ UNCHANGED <<x_cfg, x_remote, x_sent_password, x_sends,
                   x_closed, x_now, x_status>>
    /\ UNCHANGED <<orchVars, serVars, markVars, sshVars, holdVars>>

\* chan.send(password + "\n") writes, or raises once the channel is closed
SendResults == IF x_remote = "exited" THEN BOOLEAN ELSE { TRUE }

MutSudoPromptSeen(q) == TRUE

\* `_SUDO_PROMPT_RE.search(_combined_tail())` of the polling loop
SudoPromptSeen(q) == SudoPromptInTail(q)

\* `if (not sent_password) and password and _SUDO_PROMPT_RE.search(...)`
ExecSudo ==
    /\ x_pc = "sudo"
    /\ IF ~x_sent_password /\ x_cfg.password /\ SudoPromptSeen(x_stdout)
          THEN /\ x_sent_password' = TRUE
               /\ \E sent \in SendResults :
                     /\ x_sends' = IF sent THEN x_sends + 1 ELSE x_sends
                     /\ x_remote' = IF sent /\ x_remote = "waiting" THEN "running"
                                    ELSE x_remote
          ELSE UNCHANGED <<x_sent_password, x_sends, x_remote>>
    /\ x_pc' = "exit_check"
    /\ UNCHANGED <<x_cfg, x_stream, x_stdout, x_closed, x_now, x_status>>
    /\ UNCHANGED <<orchVars, serVars, markVars, sshVars, holdVars>>

\* chan.recv_exit_status(): what the remote command exited with, which can be
\* the number the runner uses for a timeout (`timeout 5 cmd`, `exit 124`)
ExitStatuses == { 0, 1, TIMEOUT_STATUS }

\* `if chan.exit_status_ready(): break`, then return rc, stdout, stderr
ExecExitCheck ==
    /\ x_pc = "exit_check"
    /\ IF x_remote = "exited"
          THEN /\ \E rc_ \in ExitStatuses : x_status' = rc_
               /\ x_pc' = "returned"
          ELSE /\ x_pc' = "timeout_check"
               /\ UNCHANGED x_status
    /\ UNCHANGED <<x_cfg, x_remote, x_stream, x_stdout, x_sent_password, x_sends,
                   x_closed, x_now>>
    /\ UNCHANGED <<orchVars, serVars, markVars, sshVars, holdVars>>

MutTimeoutExpired == x_now > x_cfg.timeout_s

\* `timeout_s > 0 and (_now() - started) > timeout_s`
TimeoutExpired == x_cfg.timeout_s > 0 /\ x_now > x_cfg.timeout_s

\* `if timeout_s > 0 and ...: chan.close(); return 124, ...`
ExecTimedOut ==
    /\ x_pc = "timeout_check"
    /\ TimeoutExpired
    /\ x_closed' = TRUE
    /\ x_status' = TIMEOUT_STATUS
    /\ x_pc' = "returned"
    /\ UNCHANGED <<x_cfg, x_remote, x_stream, x_stdout, x_sent_password, x_sends,
                   x_now>>
    /\ UNCHANGED <<orchVars, serVars, markVars, sshVars, holdVars>>

\* time.sleep(0.05), and the loop goes round
ExecSleep ==
    /\ x_pc = "timeout_check"
    /\ ~TimeoutExpired
    /\ x_now < MaxExecTime
    /\ x_now' = x_now + SSH_POLL
    /\ x_pc' = "recv"
    /\ UNCHANGED <<x_cfg, x_remote, x_stream, x_stdout, x_sent_password, x_sends,
                   x_closed, x_status>>
    /\ UNCHANGED <<orchVars, serVars, markVars, sshVars, holdVars>>

ExecNext ==
    \/ RemoteWrite
    \/ RemotePrompt
    \/ RemoteExit
    \/ ExecRecv
    \/ ExecSudo
    \/ ExecExitCheck
    \/ ExecTimedOut
    \/ ExecSleep

ExecSpec == ExecInit /\ [][ExecNext]_vars

(* C25: when _run_remote_command_interactive returns the status of a        *)
(* finished command, everything the command wrote is in the returned        *)
(* output: nothing is left unread in the channel.                           *)

C25_OutputComplete ==
    (x_pc = "returned" /\ x_status # TIMEOUT_STATUS) => x_stream = <<>>

-----------------------------------------------------------------------------
(* C27: in one wake phase the username is written at most 2 times; a login  *)
(* prompt met after 2 login attempts, a login prompt met with no username   *)
(* configured and a password prompt met with no password configured end    *)
(* the phase with failure; a credential that is not configured is never     *)
(* written, and nothing is written once the phase has failed.               *)

C27_CredentialMessages == { "no_username", "no_password", "login_repeated" }

C27_BoundedLogin ==
    /\ [](/\ login_attempts <= MAX_LOGIN_ATTEMPTS
          /\ cfg.device => written["user"] = login_attempts
          /\ ~cfg.username => written["user"] = 0
          /\ ~cfg.password => written["pass"] = 0
          /\ (spc = "wake_done" /\ ready_out.msg \in C27_CredentialMessages) => ~ready
          /\ ready_out.msg = "login_repeated" => login_attempts = MAX_LOGIN_ATTEMPTS)
    /\ [][(spc \in { "wake_done", "done" } /\ ~ready) => written' = written]_vars

C27_Witness ==
    /\ spc = "done" /\ ready_out.msg = "login_repeated"
    /\ cfg.device /\ written["user"] = MAX_LOGIN_ATTEMPTS

-----------------------------------------------------------------------------
(* C28: a failed wake phase never returns an empty transcript (it carries   *)
(* the inactivity message, a diagnostic line or at least one received       *)
(* byte), so the run exits with 12 or 13 and the exit-code-3 branch of main *)
(* is never taken.                                                          *)

C28_FailedWakeExits12Or13 ==
    /\ (spc = "wake_done" /\ ~ready) => ReadyOutHasOutput(ready_out)
    /\ SessionTranscriptPrinted =>
          ret \in { NO_SERIAL_CONNECTION_EXIT_CODE, ALIVE_NO_LINUX_SHELL_EXIT_CODE }
    /\ ret # EXIT_NO_PROMPT

C28_Witness ==
    /\ SessionTranscriptPrinted
    /\ ready_out.msg = "none"
    /\ ret = ALIVE_NO_LINUX_SHELL_EXIT_CODE

-----------------------------------------------------------------------------
(* C26: without an explicit device the candidates are probed one at a time  *)
(* in sorted order; the first candidate whose probe reaches shell is        *)
(* selected and no candidate after it is opened, otherwise the first that   *)
(* reached alive_no_shell, otherwise no_terminal; a no_terminal selection   *)
(* exits 12 and an alive_no_shell selection exits 13, with no session       *)
(* opened and no command written; an explicit device is selected as unknown *)
(* without any probe.                                                       *)

C26_Probed(state) == { i \in 1..Len(results) : results[i].state = state }

C26_SelectionMade == spc \notin ({ "start" } \cup ProbePositions)

C26_NoSession ==
    /\ Len(opened) <= Len(results)
    /\ written["cmd"] = 0
    /\ sections = 0

-----------------------------------------------------------------------------
(* C29: a device whose open fails with one of the transient error texts is  *)
(* opened at most 3 times, that is retried at most 2 times, each retry      *)
(* after the fixed delay, before it is given up; a failure with any other   *)
(* text is fatal for the device at once, with no further open attempt: the  *)
(* probe result is no_terminal, the runner's exit code is 10.               *)

C29_GivenUp == last_open \in { "retryable", "fatal" } /\ spc \in { "p_result", "done" }

C29_BoundedOpenRetry ==
    /\ [](/\ attempt <= SERIAL_OPEN_RETRIES
          /\ last_open = "fatal" => C29_GivenUp
          /\ (C29_GivenUp /\ last_open = "retryable") => attempt = SERIAL_OPEN_RETRIES
          /\ (C29_GivenUp /\ spc = "done") =>
                \/ ret = EXIT_SERIAL_ERROR /\ sel_state \in { "unknown", "shell" }
                \/ /\ ret = NO_SERIAL_CONNECTION_EXIT_CODE
                   /\ results[Len(results)].state = "no_terminal")
    /\ [][attempt' = attempt + 1 =>
             /\ last_open' = "retryable"
             /\ now' = now + SERIAL_OPEN_RETRY_DELAY
             /\ spc' = spc /\ spc \in { "p_open", "open" }]_vars

\* the device is given up after the last of SERIAL_OPEN_RETRIES opens has failed
C29_Witness ==
    /\ C29_GivenUp /\ last_open = "retryable"
    /\ attempt = SERIAL_OPEN_RETRIES
    /\ now = (SERIAL_OPEN_RETRIES - 1) * SERIAL_OPEN_RETRY_DELAY

\* as stated: a device is given up on a transient error once 3 retries were made
C29_RetriedThreeTimes ==
    (C29_GivenUp /\ last_open = "retryable") => attempt - 1 = SERIAL_OPEN_RETRIES

-----------------------------------------------------------------------------
(* C30: a serial port is never left open past the scope that opened it:     *)
(* whenever _probe_port or main has returned, or is about to open a port    *)
(* (again after a retried exception, for the next candidate, or for the     *)
(* session), no port is open, and at most one port is open at any moment.   *)

-----------------------------------------------------------------------------
(* C31: for one command run over SSH the password is written to the channel *)
(* at most once, and only by a step that finds the sudo prompt pattern in   *)
(* the tail of the output received so far; it is never written when no      *)
(* prompt appears or no password is configured, and a second prompt of the  *)
(* same command is not answered.                                            *)

C31_PasswordSentOnce ==
    /\ [](/\ x_sends <= 1
          /\ x_sends = 1 => (x_sent_password /\ x_cfg.password /\ Prompts(x_stdout) >= 1)
          /\ Prompts(x_stream \o x_stdout) = 0 => (x_sends = 0 /\ ~x_sent_password))
    /\ [][x_sends' # x_sends =>
             /\ x_sends' = x_sends + 1
             /\ ~x_sent_password /\ x_sent_password'
             /\ x_pc = "sudo"
             /\ SudoPromptInTail(x_stdout)]_vars

\* sudo has asked a second time and the call ended with one password written
C31_Witness ==
    /\ x_pc = "returned"
    /\ Prompts(x_stdout) = MaxPrompts
    /\ x_sends = 1

-----------------------------------------------------------------------------
(* C32: the exit status of a command is read only in an iteration that has  *)
(* found the channel's exit status ready; the timeout return is taken only  *)
(* with timeout_s > 0 and more than timeout_s elapsed, it closes the        *)
(* channel and returns 124 without reading an exit status; with             *)
(* timeout_s <= 0 the timeout return is never taken, and 124 can then only  *)
(* be the exit status of the command itself.                                *)

-----------------------------------------------------------------------------
(* C33: in auto mode the overall budget is cumulative across transports:    *)
(* the serial fallback and its retry are given what is left of the budget   *)
(* fixed at the start, so a run with a positive overall timeout ends no     *)
(* later than overall_timeout plus the subprocess slack after it started.   *)

C33_CumulativeBudget ==
    /\ (transport = "auto" /\ ocfg.overall_timeout > 0 /\ subprocess_timeout.limited) =>
          subprocess_timeout.after < ocfg.overall_timeout + SUBPROCESS_GRACE
    /\ (transport = "auto" /\ ocfg.overall_timeout > 0 /\ final_rc # NotReturned) =>
          elapsed <= ocfg.overall_timeout + SUBPROCESS_GRACE

-----------------------------------------------------------------------------
(* main in auto mode, with the SSH attempt made by the executor itself      *)
(* instead of being drawn from SshOutcomes.                                 *)

AutoInit ==
    /\ transport = "auto"
    /\ opc = "start"
    /\ ssh_ok = FALSE
    /\ exit_code = 0
    /\ transcript = {}
    /\ ssh_timeout = FALSE
    /\ rc = 0
    /\ out = {}
    /\ err = {}
    /\ final_rc = NotReturned
    /\ events = <<>>
    /\ ocfg \in RunnerConfigs
    /\ subprocess_timeout = None
    /\ elapsed = 0
    /\ s_pc = "start"
    /\ s_now = 0
    /\ s_overall_deadline = Inf
    /\ s_i = 0
    /\ s_remaining = 0
    /\ s_per_cmd_timeout = 0
    /\ s_started = 0
    /\ s_exit_code = 0
    /\ s_transcript = <<>>
    /\ s_result = [ok |-> FALSE, code |-> NotReturned]
    /\ s_statuses = <<>>
    /\ SerialIdle
    /\ MarkIdle
    /\ HoldIdle
    /\ ExecIdle

\* "\n".join(transcript), as the fragments main searches it for
TranscriptText(lines) == { lines[i][1] : i \in 1..Len(lines) }

\* f"{type(exc).__name__}: {msg}" of a failed client.connect()
ConnectErrorTexts(lines) ==
    IF "SSH connect failed" \in TranscriptText(lines) THEN SUBSET SshFailFragments
    ELSE { {} }

\* ssh_ok, exit_code, transcript = _try_run_commands_over_ssh(cfg, commands)
AutoSshReturned ==
    /\ opc = "start"
    /\ transport = "auto"
    /\ s_pc = "returned"
    /\ ssh_ok' = s_result.ok
    /\ exit_code' = s_result.code
    /\ \E f \in ConnectErrorTexts(s_transcript) :
          transcript' = TranscriptText(s_transcript) \cup f
    /\ events' = Append(events, Event("ssh", NoResult))
    /\ elapsed' = elapsed + s_now
    /\ opc' = "ssh_done"
    /\ UNCHANGED <<transport, ssh_timeout, rc, out, err, final_rc, ocfg,
                   subprocess_timeout>>
    /\ UNCHANGED <<serVars, markVars, sshVars, holdVars, execVars>>

AutoNext ==
    \/ (opc = "start" /\ SshNext)
    \/ AutoSshReturned
    \/ AutoSshOk
    \/ AutoAuthFailure
    \/ AutoFallback
    \/ AutoSerial
    \/ AutoRetryCleanup
    \/ AutoRetrySerial
    \/ AutoNoRetry
    \/ AutoFinish

AutoSpec == AutoInit /\ [][AutoNext]_vars

(* C34: in auto mode, once the SSH connection has been established the      *)
(* serial transport is never attempted and no holder cleanup is run,        *)
(* whatever happens to the commands afterwards (non-zero exit status,       *)
(* per-command timeout, exception while executing a command), and the       *)
(* run's exit code is the code of the SSH result.                           *)

\* client.connect() has returned
C34_Connected == s_i >= 1

C34_NoFallbackOnceConnected ==
    C34_Connected =>
        /\ \A i \in 1..Len(events) : events[i].call = "ssh"
        /\ opc \in { "start", "ssh_done", "done" }
        /\ s_pc = "returned" => s_result.ok
        /\ opc # "start" => (ssh_ok /\ exit_code = s_result.code)
        /\ final_rc # NotReturned => final_rc = s_result.code

\* a command raised after the connection was made, and main returned its code
C34_Witness ==
    /\ C34_Connected
    /\ "ERROR: command execution failed" \in transcript
    /\ final_rc = SUBPROCESS_TIMEOUT_EXIT_CODE
    /\ opc = "done"

====
